---- MODULE Spec2Model ----
(***************************************************************************)
(* jobby: a job (child process supervised by a goroutine, two output       *)
(* files), the live file streamers attached to its output and the inotify  *)
(* write watcher behind each streamer.                                     *)
(*                                                                         *)
(*   job/job.go              Job, New, Status, Stop, watchOutput           *)
(*   streamer/streamer.go    LiveFileStreamer: fileRead, Read, Close       *)
(*   unnamed/part_003        FileWriteWatcher: newWatcher, Close           *)
(*   internal/service        Jobby: StartJob, StopJob, GetStatus,          *)
(*                           GetJobOutput, getJob and the job registry     *)
(***************************************************************************)
EXTENDS Integers, Sequences, FiniteSets, TLC

\* ---------------------------------------------------------------- bounds
\* The child appends at most MaxFileLen bytes to each output file.
MaxFileLen == 2
\* A Read is given a buffer of 1..MaxBuf bytes.
MaxBuf == 2
\* The service registers at most MaxJobs jobs.
MaxJobs == 2

\* The size of the buffer GetJobOutput reads into (service.go).
defaultOutputBufferSize == 4096

\* The streamers that may be attached (job.go Stdout()/Stderr() callers).
Streamers == {1}
Streams == {"stdout", "stderr"}

\* ------------------------------------------------------------- constants
NoError == "nil"
EOF == "io.EOF"
ErrClosed == "os.ErrClosed"
\* The causes a watcher ends with: an event that is neither IN_MODIFY nor
\* IN_IGNORED, and a failed read of the inotify descriptor.
ErrUnexpectedEvent == "unexpected event returned from watch"
ErrReadWatch == "read of the watch failed"
\* fmt.Errorf("watcher encountered unexpected error: %w", cause)
Wrap(cause) == "watcher encountered unexpected error: " \o cause
ErrWatcher == Wrap(ErrUnexpectedEvent)
ErrProcessDone == "os: process already finished"
Errors == {ErrClosed, ErrWatcher, Wrap(ErrReadWatch)}

SIGKILL == "SIGKILL"
SIGSEGV == "SIGSEGV"
NoSignal == "none"

JobStatusRunning == "RUNNING"
JobstatusComplete == "COMPLETE"
JobStatusStopped == "STOPPED"

\* The ways a child terminates (os.ProcessState): with an exit code, or by a
\* signal.  `by` records who caused it: the child itself, Stop()'s kill, or
\* a kill sent by some other process.
Terminations ==
    { [kind |-> "exit", code |-> 0, sig |-> NoSignal, by |-> "self"],
      [kind |-> "exit", code |-> 1, sig |-> NoSignal, by |-> "self"],
      [kind |-> "signal", code |-> 0, sig |-> SIGSEGV, by |-> "self"],
      [kind |-> "signal", code |-> 0, sig |-> SIGKILL, by |-> "other"],
      [kind |-> "signal", code |-> 0, sig |-> SIGKILL, by |-> "user"] }
NoTermination == [kind |-> "none", code |-> 0, sig |-> NoSignal, by |-> "none"]

\* The *exec.ExitError of a job: nil until recorded, and nil for a child that
\* exited successfully; otherwise it carries the child's ProcessState.
NilExitErr == [nil |-> TRUE, ps |-> NoTermination]

VARIABLES
    \* --- the child process and the kernel
    child,          \* [state, term]: running | killed | zombie | reaped
    file,           \* [Streams -> Seq(byte)]: the two output files
    \* --- Job (job.go:63-73) and its supervision goroutine (job.go:118-136)
    jobLock,        \* "free" or the holder
    processExited,
    processDone,    \* TRUE once close(processDone) has run
    exitErr,
    userKilled,
    outOpen,        \* [Streams -> BOOLEAN]: the job's write handles
    supPc,          \* position of the supervision goroutine
    lastStatus,     \* what the last Status() returned
    lastStop,       \* what the last Stop() returned
    \* --- LiveFileStreamer and its FileWriteWatcher, one per attached reader
    str,            \* [Streamers -> streamer record]
    wat,            \* [Streamers -> watcher record]
    \* --- Jobby, the service (internal/service/service.go)
    jobDirectory,   \* [JobIds -> jobData or NoJob]: the registry
    lastStart,      \* what the last StartJob did and returned
    lastRpc,        \* what the last StopJob / GetStatus / GetJobOutput returned
    out             \* the GetJobOutput call that streams the job's output

jobVars == <<jobLock, processExited, processDone, exitErr, userKilled, outOpen, supPc>>
callVars == <<lastStatus, lastStop>>
svcVars == <<jobDirectory, lastStart, lastRpc, out>>
vars == <<child, file, jobLock, processExited, processDone, exitErr, userKilled,
          outOpen, supPc, lastStatus, lastStop, str, wat,
          jobDirectory, lastStart, lastRpc, out>>

\* ------------------------------------------------------------- helpers
Min(a, b) == IF a < b THEN a ELSE b

\* The i-th byte the child writes to a stream: distinct per position and per
\* stream, so that a duplicated, dropped or misrouted byte is visible.
ByteAt(st, i) == IF st = "stdout" THEN i ELSE 10 + i

\* bytes (from+1)..(from+n) of a file
Slice(f, from, n) == SubSeq(f, from + 1, from + n)


\* ------------------------------------------------- os/exec, as the job uses it
\* ProcessState.ExitCode(): -1 when the process was terminated by a signal.
ExitCode(ps) == IF ps.kind = "exit" THEN ps.code ELSE -1

\* syscall.WaitStatus.Signal(): -1 (here NoSignal) unless signaled.
Signal(ps) == IF ps.kind = "signal" THEN ps.sig ELSE NoSignal

\* What `err.(*exec.ExitError)` yields for the error Wait() returned: Wait
\* returns nil for exit code 0 and an *ExitError for everything else.
WaitError(ps) ==
    IF ps.kind = "exit" /\ ps.code = 0 THEN NilExitErr ELSE [nil |-> FALSE, ps |-> ps]

\* ------------------------------------------------------------------ job.go
\* Mutant: Stopped for any child killed by SIGKILL, whoever sent it.
newState_IgnoresUserKilled(exited, killed, e) ==
    IF exited
    THEN IF ~e.nil /\ ExitCode(e.ps) = -1 /\ Signal(e.ps) = SIGKILL
         THEN JobStatusStopped
         ELSE JobstatusComplete
    ELSE JobStatusRunning

\* Mutant: Stopped whenever userKilled is set, however the child terminated.
newState_IgnoresSignal(exited, killed, e) ==
    IF exited
    THEN IF killed THEN JobStatusStopped ELSE JobstatusComplete
    ELSE JobStatusRunning

newState(exited, killed, e) ==
    IF exited
    THEN IF ~e.nil /\ ExitCode(e.ps) = -1
         THEN IF Signal(e.ps) = SIGKILL /\ killed
              THEN JobStatusStopped
              ELSE JobstatusComplete
         ELSE JobstatusComplete
    ELSE JobStatusRunning

\* Status.ReturnCode (*int): nil unless an ExitError was recorded.
NilReturnCode == [present |-> FALSE, code |-> 0]
ReturnCode(e) == IF e.nil THEN NilReturnCode ELSE [present |-> TRUE, code |-> ExitCode(e.ps)]

\* lastStatus: the Status the last call returned, and (cell) the exit-state
\* cell, the child's termination and whether processDone was closed, as they
\* were when the lock was held.
NoStatus ==
    [CurrentState |-> "none", ReturnCode |-> NilReturnCode,
     cell |-> [exited |-> FALSE, userKilled |-> FALSE, term |-> NoTermination,
               done |-> FALSE]]

\* Mutant: Status() reads the exit-state cell without taking the job lock.
Status_NoLock ==
    /\ lastStatus' = [CurrentState |-> newState(processExited, userKilled, exitErr),
                      ReturnCode |-> ReturnCode(exitErr),
                      cell |-> [exited |-> processExited, userKilled |-> userKilled,
                                term |-> child.term, done |-> processDone]]
    /\ UNCHANGED svcVars
    /\ UNCHANGED <<child, file, jobVars, lastStop, str, wat>>

\* Job.Status(): under the job lock, derive the state from the exit-state cell.
Status ==
    /\ jobLock = "free"
    /\ lastStatus' = [CurrentState |-> newState(processExited, userKilled, exitErr),
                      ReturnCode |-> ReturnCode(exitErr),
                      cell |-> [exited |-> processExited, userKilled |-> userKilled,
                                term |-> child.term, done |-> processDone]]
    /\ UNCHANGED svcVars
    /\ UNCHANGED <<child, file, jobVars, lastStop, str, wat>>

\* cmd.Process.Kill(): the signal is sent to a live or not yet reaped child
\* (a zombie takes it without effect); once Wait() has reaped the child,
\* os.Process reports ErrProcessDone.
KillError == IF child.state = "reaped" THEN ErrProcessDone ELSE NoError
KillEffect ==
    IF child.state = "running" THEN [child EXCEPT !.state = "killed"] ELSE child

\* Mutant: Stop() sends the kill without looking at processExited.
Stop_KillsAfterExit ==
    /\ jobLock = "free"
    /\ child' = KillEffect
    /\ userKilled' = (userKilled \/ KillError = NoError)
    /\ lastStop' = KillError
    /\ UNCHANGED svcVars
    /\ UNCHANGED <<file, jobLock, processExited, processDone, exitErr, outOpen, supPc,
                   lastStatus, str, wat>>

\* Mutant: userKilled is assigned the outcome of every kill attempt.
Stop_ResetsFlag ==
    /\ jobLock = "free"
    /\ IF ~processExited
       THEN /\ child' = KillEffect
            /\ userKilled' = (KillError = NoError)
            /\ lastStop' = KillError
       ELSE /\ lastStop' = NoError
            /\ UNCHANGED <<child, userKilled>>
    /\ UNCHANGED svcVars
    /\ UNCHANGED <<file, jobLock, processExited, processDone, exitErr, outOpen, supPc,
                   lastStatus, str, wat>>

\* Mutant: a successful kill is not remembered in userKilled.
Stop_NoFlag ==
    /\ jobLock = "free"
    /\ IF ~processExited
       THEN /\ child' = KillEffect
            /\ lastStop' = KillError
            /\ UNCHANGED userKilled
       ELSE /\ lastStop' = NoError
            /\ UNCHANGED <<child, userKilled>>
    /\ UNCHANGED svcVars
    /\ UNCHANGED <<file, jobLock, processExited, processDone, exitErr, outOpen, supPc,
                   lastStatus, str, wat>>

\* Mutant: userKilled is set by every kill attempt, failed or not.
Stop_FlagsOnFailure ==
    /\ jobLock = "free"
    /\ IF ~processExited
       THEN /\ child' = KillEffect
            /\ userKilled' = TRUE
            /\ lastStop' = KillError
       ELSE /\ lastStop' = NoError
            /\ UNCHANGED <<child, userKilled>>
    /\ UNCHANGED svcVars
    /\ UNCHANGED <<file, jobLock, processExited, processDone, exitErr, outOpen, supPc,
                   lastStatus, str, wat>>

\* Job.Stop(): under the job lock, kill the child unless the exit is recorded.
Stop ==
    /\ jobLock = "free"
    /\ IF ~processExited
       THEN /\ child' = KillEffect
            /\ userKilled' = (userKilled \/ KillError = NoError)
            /\ lastStop' = KillError
       ELSE /\ lastStop' = NoError
            /\ UNCHANGED <<child, userKilled>>
    /\ UNCHANGED svcVars
    /\ UNCHANGED <<file, jobLock, processExited, processDone, exitErr, outOpen, supPc,
                   lastStatus, str, wat>>

\* The supervision goroutine of New(): c.Wait() returns once the child has
\* terminated, and reaps it.
SupWait ==
    /\ supPc = "wait"
    /\ child.state = "zombie"
    /\ child' = [child EXCEPT !.state = "reaped"]
    /\ supPc' = "lock"
    /\ UNCHANGED svcVars
    /\ UNCHANGED <<file, jobLock, processExited, processDone, exitErr, userKilled,
                   outOpen, callVars, str, wat>>

\* newJob.jobLock.Lock()
SupLock ==
    /\ supPc = "lock"
    /\ jobLock = "free"
    /\ jobLock' = "sup"
    /\ supPc' = "closeDone"
    /\ UNCHANGED svcVars
    /\ UNCHANGED <<child, file, processExited, processDone, exitErr, userKilled,
                   outOpen, callVars, str, wat>>

\* Mutant: the supervision goroutine never closes processDone.
SupCloseDone_Skipped ==
    /\ supPc = "closeDone"
    /\ supPc' = "record"
    /\ UNCHANGED svcVars
    /\ UNCHANGED <<child, file, jobLock, processExited, processDone, exitErr, userKilled,
                   outOpen, callVars, str, wat>>

\* close(newJob.processDone)
SupCloseDone ==
    /\ supPc = "closeDone"
    /\ processDone' = TRUE
    /\ supPc' = "record"
    /\ UNCHANGED svcVars
    /\ UNCHANGED <<child, file, jobLock, processExited, exitErr, userKilled,
                   outOpen, callVars, str, wat>>

\* Mutant: the exit is marked as recorded, the ExitError is not stored.
SupRecord_NoExitErr ==
    /\ supPc = "record"
    /\ processExited' = TRUE
    /\ supPc' = "unlock"
    /\ UNCHANGED svcVars
    /\ UNCHANGED <<child, file, jobLock, processDone, exitErr, userKilled,
                   outOpen, callVars, str, wat>>

\* newJob.processExited = true; newJob.exitErr, _ = err.(*exec.ExitError)
SupRecord ==
    /\ supPc = "record"
    /\ processExited' = TRUE
    /\ exitErr' = WaitError(child.term)
    /\ supPc' = "unlock"
    /\ UNCHANGED svcVars
    /\ UNCHANGED <<child, file, jobLock, processDone, userKilled,
                   outOpen, callVars, str, wat>>

\* Mutant: the supervision goroutine ends without releasing the job lock.
SupUnlock_KeepsLock ==
    /\ supPc = "unlock"
    /\ supPc' = "closeStderr"
    /\ UNCHANGED svcVars
    /\ UNCHANGED <<child, file, jobLock, processExited, processDone, exitErr, userKilled,
                   outOpen, callVars, str, wat>>

\* The deferred calls run in reverse order: Unlock, then logFileClose(stderrFile),
\* then logFileClose(stdoutFile).
SupUnlock ==
    /\ supPc = "unlock"
    /\ jobLock' = "free"
    /\ supPc' = "closeStderr"
    /\ UNCHANGED svcVars
    /\ UNCHANGED <<child, file, processExited, processDone, exitErr, userKilled,
                   outOpen, callVars, str, wat>>

SupCloseStderr ==
    /\ supPc = "closeStderr"
    /\ outOpen' = [outOpen EXCEPT !["stderr"] = FALSE]
    /\ supPc' = "closeStdout"
    /\ UNCHANGED svcVars
    /\ UNCHANGED <<child, file, jobLock, processExited, processDone, exitErr,
                   userKilled, callVars, str, wat>>

SupCloseStdout ==
    /\ supPc = "closeStdout"
    /\ outOpen' = [outOpen EXCEPT !["stdout"] = FALSE]
    /\ supPc' = "end"
    /\ UNCHANGED svcVars
    /\ UNCHANGED <<child, file, jobLock, processExited, processDone, exitErr,
                   userKilled, callVars, str, wat>>


\* ------------------------------------------------- the child and the kernel
IN_MODIFY == "IN_MODIFY"
IN_IGNORED == "IN_IGNORED"
\* An event the watch did not ask for (the kernel sends it unasked).
IN_UNMOUNT == "IN_UNMOUNT"

\* The kernel queues an inotify event unless it equals the last queued one.
Enqueue(q, ev) == IF q # <<>> /\ q[Len(q)] = ev THEN q ELSE Append(q, ev)

\* The child appends one byte to one of its output files; every watch on that
\* file gets a modify event.
ChildWrite(st) ==
    /\ child.state \in {"running", "killed"}
    /\ Len(file[st]) < MaxFileLen
    /\ file' = [file EXCEPT ![st] = Append(@, ByteAt(st, Len(@) + 1))]
    /\ wat' = [s \in DOMAIN wat |->
                 IF wat[s].watching /\ str[s].stream = st
                 THEN [wat[s] EXCEPT !.queue = Enqueue(@, IN_MODIFY)]
                 ELSE wat[s]]
    /\ UNCHANGED svcVars
    /\ UNCHANGED <<child, jobVars, callVars, str>>

\* The child terminates by itself, or is killed by some other process.
ChildExit(t) ==
    /\ child.state = "running"
    /\ t.by \in {"self", "other"}
    /\ child' = [state |-> "zombie", term |-> t]
    /\ UNCHANGED svcVars
    /\ UNCHANGED <<file, jobVars, callVars, str, wat>>

\* The kill signal Stop() sent terminates the child.
ChildKilled ==
    /\ child.state = "killed"
    /\ child' = [state |-> "zombie",
                 term |-> [kind |-> "signal", code |-> 0, sig |-> SIGKILL, by |-> "user"]]
    /\ UNCHANGED svcVars
    /\ UNCHANGED <<file, jobVars, callVars, str, wat>>

\* ------------------------------------------ FileWriteWatcher (unnamed/part_003)
\* The fields of the Go struct (err; closeSync and events: closed or not),
\* the kernel's side (watching: the watch exists; queue: the events not yet
\* read; fdOpen: the inotify descriptor is open), the goroutine (wpc: its
\* position; readError: its local variable), and the direct callers of
\* Close(): the position of the first call (kpc), what it returned
\* (closeErr), what a later call returned (closeErr2), and how often the
\* descriptor was released.
NoWatcher ==
    [wpc |-> "none", queue |-> <<>>, watching |-> FALSE, closeSync |-> FALSE,
     err |-> NoError, eventsClosed |-> FALSE, fdOpen |-> FALSE,
     readError |-> NoError, kpc |-> "none", closeErr |-> "none",
     closeErr2 |-> "none", released |-> 0]

\* newWatcher(): InotifyInit, InotifyAddWatch(IN_MODIFY), and the goroutine
\* that reads the watch.
newWatcher ==
    [NoWatcher EXCEPT !.wpc = "read", !.watching = TRUE, !.fdOpen = TRUE]

\* Mutant: Close() closes closeSync and does not remove the watch.
WatcherClose_KeepsWatch(w) ==
    IF w.closeSync THEN w ELSE [w EXCEPT !.closeSync = TRUE]

\* FileWriteWatcher.Close(), as the streamer calls it: once, remove the watch
\* (the kernel answers with IN_IGNORED) and close closeSync.
WatcherClose(w) ==
    IF w.closeSync
    THEN w
    ELSE [w EXCEPT !.queue = IF w.watching THEN Append(@, IN_IGNORED) ELSE @,
                   !.watching = FALSE,
                   !.closeSync = TRUE]

\* The goroutine: readEvent returned an event.
WatchRead(s) ==
    /\ wat[s].wpc = "read"
    /\ wat[s].queue # <<>>
    /\ LET ev == Head(wat[s].queue) IN
       wat' = [wat EXCEPT ![s] =
                 [@ EXCEPT !.queue = Tail(@),
                           !.wpc = IF ev = IN_MODIFY THEN "send" ELSE "sync",
                           !.readError = IF ev \in {IN_MODIFY, IN_IGNORED}
                                         THEN NoError ELSE ErrUnexpectedEvent]]
    /\ UNCHANGED svcVars
    /\ UNCHANGED <<child, file, jobVars, callVars, str>>

\* Mutant: the goroutine ends without closing the events channel.
WatchExit_NoClose(s) ==
    /\ wat[s].wpc = "sync"
    /\ wat[s].closeSync
    /\ wat' = [wat EXCEPT ![s] = [@ EXCEPT !.wpc = "exited", !.fdOpen = FALSE,
                                           !.released = @ + 1,
                                           !.err = wat[s].readError]]
    /\ UNCHANGED svcVars
    /\ UNCHANGED <<child, file, jobVars, callVars, str>>

\* Mutant: the goroutine releases the descriptor without waiting for
\* closeSync.
WatchExit_NoHandshake(s) ==
    /\ wat[s].wpc = "sync"
    /\ wat' = [wat EXCEPT ![s] = [@ EXCEPT !.wpc = "exited", !.fdOpen = FALSE,
                                           !.released = @ + 1,
                                           !.err = wat[s].readError,
                                           !.eventsClosed = TRUE]]
    /\ UNCHANGED svcVars
    /\ UNCHANGED <<child, file, jobVars, callVars, str>>

\* The goroutine after its loop: <-closeSync, unix.Close(fd), set err, and
\* (deferred) close(events).
WatchExit(s) ==
    /\ wat[s].wpc = "sync"
    /\ wat[s].closeSync
    /\ wat' = [wat EXCEPT ![s] = [@ EXCEPT !.wpc = "exited", !.fdOpen = FALSE,
                                           !.released = @ + 1,
                                           !.err = wat[s].readError,
                                           !.eventsClosed = TRUE]]
    /\ UNCHANGED svcVars
    /\ UNCHANGED <<child, file, jobVars, callVars, str>>

\* The goroutine: readEvent returned an error (the read of the descriptor
\* failed).
WatchReadError(s) ==
    /\ wat[s].wpc = "read"
    /\ wat' = [wat EXCEPT ![s] = [@ EXCEPT !.wpc = "sync", !.readError = ErrReadWatch]]
    /\ UNCHANGED svcVars
    /\ UNCHANGED <<child, file, jobVars, callVars, str>>

\* The kernel queues an event that is neither IN_MODIFY nor IN_IGNORED.
KernelUnexpected(s) ==
    /\ wat[s].watching
    /\ \A i \in 1..Len(wat[s].queue) : wat[s].queue[i] # IN_UNMOUNT
    /\ wat' = [wat EXCEPT ![s] = [@ EXCEPT !.queue = Append(@, IN_UNMOUNT)]]
    /\ UNCHANGED svcVars
    /\ UNCHANGED <<child, file, jobVars, callVars, str>>

\* NewWatcher(path), called directly (no streamer owns the watcher).
NewWatcher(s) ==
    /\ ~str[s].attached
    /\ wat[s].wpc = "none"
    /\ wat' = [wat EXCEPT ![s] = newWatcher]
    /\ UNCHANGED svcVars
    /\ UNCHANGED <<child, file, jobVars, callVars, str>>

\* The consumer of Events() receives a pulse.
EventsReceive(s) ==
    /\ ~str[s].attached
    /\ wat[s].wpc = "send"
    /\ wat' = [wat EXCEPT ![s] = [@ EXCEPT !.wpc = "read"]]
    /\ UNCHANGED svcVars
    /\ UNCHANGED <<child, file, jobVars, callVars, str>>

\* unix.InotifyRmWatch(fd, wd): fails on a descriptor that is no longer open
\* and on a watch that no longer exists.
RmWatchError(w) == IF ~w.fdOpen THEN "EBADF" ELSE IF ~w.watching THEN "EINVAL" ELSE NoError

\* Mutant: Close() closes closeSync and leaves the watch in place.
WatcherCloseRm_KeepsWatch(s) ==
    /\ ~str[s].attached
    /\ wat[s].wpc # "none"
    /\ wat[s].kpc = "none"
    /\ wat' = [wat EXCEPT ![s] = [@ EXCEPT !.kpc = "rm", !.closeErr = NoError]]
    /\ UNCHANGED svcVars
    /\ UNCHANGED <<child, file, jobVars, callVars, str>>

\* FileWriteWatcher.Close(), called directly, first part: closeOnce, and
\* InotifyRmWatch, which the kernel answers with IN_IGNORED.
WatcherCloseRm(s) ==
    /\ ~str[s].attached
    /\ wat[s].wpc # "none"
    /\ wat[s].kpc = "none"
    /\ wat' = [wat EXCEPT ![s] =
                 [@ EXCEPT !.kpc = "rm",
                           !.closeErr = RmWatchError(wat[s]),
                           !.queue = IF RmWatchError(wat[s]) = NoError
                                     THEN Append(@, IN_IGNORED) ELSE @,
                           !.watching = FALSE]]
    /\ UNCHANGED svcVars
    /\ UNCHANGED <<child, file, jobVars, callVars, str>>

\* Close(), second part: close(w.closeSync), and the return of e1.
WatcherCloseSync(s) ==
    /\ wat[s].kpc = "rm"
    /\ wat' = [wat EXCEPT ![s] = [@ EXCEPT !.kpc = "returned", !.closeSync = TRUE]]
    /\ UNCHANGED svcVars
    /\ UNCHANGED <<child, file, jobVars, callVars, str>>

\* A later Close(): closeOnce.Do runs nothing, `err` is returned unassigned.
WatcherCloseAgain(s) ==
    /\ wat[s].kpc = "returned"
    /\ wat[s].closeErr2 = "none"
    /\ wat' = [wat EXCEPT ![s] = [@ EXCEPT !.closeErr2 = NoError]]
    /\ UNCHANGED svcVars
    /\ UNCHANGED <<child, file, jobVars, callVars, str>>

\* --------------------------------------- LiveFileStreamer (streamer/streamer.go)
\* The fields of the Go struct (File: offset, fileClosed; useWatch; done; the
\* position in Close: cpc), the position of the caller's Read (rpc), and what
\* the caller has seen: the last Read's return (lastN, lastErr), the bytes
\* delivered so far, whether the last Read took the short circuit on `done`
\* (sticky), whether it was called after Close() had returned (afterClose),
\* and whether the Read that was blocked when Close() shut the watcher down
\* is still blocked or has returned (cread).  late: attached after
\* processDone was closed.  c2, cerr2: a further call of Close(), made while
\* or after the first one runs: its position and what it returned.
NoStreamer ==
    [attached |-> FALSE, stream |-> "stdout", late |-> FALSE,
     offset |-> 0, fileClosed |-> FALSE, useWatch |-> FALSE, done |-> NoError,
     rpc |-> "idle", lastN |-> 0, lastErr |-> "none",
     delivered |-> <<>>, sticky |-> FALSE, afterClose |-> FALSE, cread |-> "no",
     cpc |-> "none", c2 |-> "no", cerr2 |-> "none"]

\* Job.watchOutput / NewLiveFileStreamer: a read handle at byte 0 and a watcher
\* on the same path, registered before any read.
Attach(s, st) ==
    /\ ~str[s].attached
    /\ str' = [str EXCEPT ![s] = [NoStreamer EXCEPT !.attached = TRUE, !.stream = st,
                                                   !.late = processDone]]
    /\ wat' = [wat EXCEPT ![s] = newWatcher]
    /\ UNCHANGED svcVars
    /\ UNCHANGED <<child, file, jobVars, callVars>>

\* Mutant: the read handle still reads after File.Close().
NativeRead_IgnoresClose(r, n) ==
    LET f == file[r.stream]
        c == Min(n, Len(f) - r.offset) IN
    IF c = 0 THEN [count |-> 0, err |-> EOF, data |-> <<>>]
    ELSE [count |-> c, err |-> NoError, data |-> Slice(f, r.offset, c)]

\* l.File.Read(p) with len(p) = n: ErrClosed on a closed handle, (0, io.EOF)
\* at the end of the file, otherwise the next min(n, available) bytes.
NativeRead(r, n) ==
    LET f == file[r.stream]
        c == Min(n, Len(f) - r.offset) IN
    IF r.fileClosed THEN [count |-> 0, err |-> ErrClosed, data |-> <<>>]
    ELSE IF c = 0 THEN [count |-> 0, err |-> EOF, data |-> <<>>]
    ELSE [count |-> c, err |-> NoError, data |-> Slice(f, r.offset, c)]

\* Mutant: the native end-of-file is handed to the caller.
fileRead_LeaksEOF(r, n) ==
    LET nr == NativeRead(r, n) IN
    IF nr.err # NoError
    THEN IF nr.err = EOF
         THEN [r |-> [r EXCEPT !.useWatch = TRUE],
               count |-> nr.count, err |-> nr.err, data |-> <<>>]
         ELSE [r |-> [r EXCEPT !.done = nr.err],
               count |-> nr.count, err |-> nr.err, data |-> <<>>]
    ELSE [r |-> [r EXCEPT !.offset = @ + nr.count],
          count |-> nr.count, err |-> NoError, data |-> nr.data]

\* Mutant: a native read error is returned but not kept in `done`.
fileRead_ErrorNotSticky(r, n) ==
    LET nr == NativeRead(r, n) IN
    IF nr.err # NoError
    THEN IF nr.err = EOF
         THEN [r |-> [r EXCEPT !.useWatch = TRUE],
               count |-> nr.count, err |-> NoError, data |-> <<>>]
         ELSE [r |-> r, count |-> nr.count, err |-> nr.err, data |-> <<>>]
    ELSE [r |-> [r EXCEPT !.offset = @ + nr.count],
          count |-> nr.count, err |-> NoError, data |-> nr.data]

\* Mutant: the read handle's offset does not move with the bytes read.
fileRead_NoAdvance(r, n) ==
    LET nr == NativeRead(r, n) IN
    IF nr.err # NoError
    THEN IF nr.err = EOF
         THEN [r |-> [r EXCEPT !.useWatch = TRUE],
               count |-> nr.count, err |-> NoError, data |-> <<>>]
         ELSE [r |-> [r EXCEPT !.done = nr.err],
               count |-> nr.count, err |-> nr.err, data |-> <<>>]
    ELSE [r |-> r, count |-> nr.count, err |-> NoError, data |-> nr.data]

\* fileRead(p): the streamer after the call, and what the call returns.
fileRead(r, n) ==
    LET nr == NativeRead(r, n) IN
    IF nr.err # NoError
    THEN IF nr.err = EOF
         THEN [r |-> [r EXCEPT !.useWatch = TRUE],
               count |-> nr.count, err |-> NoError, data |-> <<>>]
         ELSE [r |-> [r EXCEPT !.done = nr.err],
               count |-> nr.count, err |-> nr.err, data |-> <<>>]
    ELSE [r |-> [r EXCEPT !.offset = @ + nr.count],
          count |-> nr.count, err |-> NoError, data |-> nr.data]

\* Read returns (count, err) to its caller.
Return(r, count, err, data) ==
    [r EXCEPT !.rpc = "idle", !.lastN = count, !.lastErr = err,
              !.delivered = @ \o data]

\* Read(p) with len(p) = n, up to the receive from the events channel: the
\* sticky outcome, a read while catching up, or the start of the wait.  (The
\* buffer is not touched before the wait ends, so its length is drawn there.)
ReadCall(s, n) ==
    /\ str[s].attached
    /\ str[s].rpc = "idle"
    /\ LET r == [str[s] EXCEPT !.afterClose = (str[s].cpc = "closed"), !.cread = "no"]
           fr == fileRead(r, n) IN
       str' = [str EXCEPT ![s] =
                 IF r.done # NoError
                 THEN Return([r EXCEPT !.sticky = TRUE], 0, r.done, <<>>)
                 ELSE IF ~r.useWatch THEN Return(fr.r, fr.count, fr.err, fr.data)
                 ELSE [r EXCEPT !.rpc = "wait"]]
    /\ UNCHANGED svcVars
    /\ UNCHANGED <<child, file, jobVars, callVars, wat>>

\* Read(p), woken by a pulse: `return l.fileRead(p)`.
ReadPulse(s, n) ==
    /\ str[s].rpc = "wait"
    /\ wat[s].wpc = "send"
    /\ wat' = [wat EXCEPT ![s] = [@ EXCEPT !.wpc = "read"]]
    /\ LET fr == fileRead(str[s], n) IN
       str' = [str EXCEPT ![s] = Return(fr.r, fr.count, fr.err, fr.data)]
    /\ UNCHANGED svcVars
    /\ UNCHANGED <<child, file, jobVars, callVars>>

\* Mutant: Read does not look at the watcher's error.
EndOfStream_IgnoresWatcher(w) == EOF

\* The end condition of Read: the watcher is closed and the file exhausted.
EndOfStream(w) == IF w.err # NoError THEN Wrap(w.err) ELSE EOF

\* Mutant: the closed events channel ends the stream without a last fileRead.
ReadClosed_NoDrain(s, n) ==
    /\ str[s].rpc = "wait"
    /\ wat[s].eventsClosed
    /\ str' = [str EXCEPT ![s] =
                 Return([str[s] EXCEPT !.done = EndOfStream(wat[s])],
                        0, EndOfStream(wat[s]), <<>>)]
    /\ UNCHANGED svcVars
    /\ UNCHANGED <<child, file, jobVars, callVars, wat>>

\* Mutant: end-of-stream is returned but not kept in `done`.
ReadClosed_NoStickyEof(s, n) ==
    /\ str[s].rpc = "wait"
    /\ wat[s].eventsClosed
    /\ LET fr == fileRead(str[s], n) IN
       str' = [str EXCEPT ![s] =
                 IF fr.count = 0 /\ fr.err = NoError /\ fr.r.useWatch
                 THEN Return(fr.r, 0, EndOfStream(wat[s]), <<>>)
                 ELSE Return(fr.r, fr.count, fr.err, fr.data)]
    /\ UNCHANGED svcVars
    /\ UNCHANGED <<child, file, jobVars, callVars, wat>>

\* Read(p), woken by the closed events channel: one more fileRead, and the
\* end of the stream when it finds nothing.
ReadClosed(s, n) ==
    /\ str[s].rpc = "wait"
    /\ wat[s].eventsClosed
    /\ LET fr == fileRead(str[s], n)
           cr == IF str[s].cread = "pending" THEN "returned" ELSE "no" IN
       str' = [str EXCEPT ![s] =
                 IF fr.count = 0 /\ fr.err = NoError /\ fr.r.useWatch
                 THEN Return([fr.r EXCEPT !.done = EndOfStream(wat[s]), !.cread = cr],
                             0, EndOfStream(wat[s]), <<>>)
                 ELSE Return([fr.r EXCEPT !.cread = cr], fr.count, fr.err, fr.data)]
    /\ UNCHANGED svcVars
    /\ UNCHANGED <<child, file, jobVars, callVars, wat>>

\* Mutant: the streamers of a job share one watch, which Close() removes.
CloseCall_SharedWatch(s) ==
    /\ str[s].attached
    /\ str[s].cpc = "none"
    /\ str' = [str EXCEPT ![s] =
                 [@ EXCEPT !.cpc = "closeFile",
                           !.cread = IF str[s].rpc = "wait" /\ ~wat[s].closeSync
                                     THEN "pending" ELSE "no"]]
    /\ wat' = [x \in DOMAIN wat |-> WatcherClose(wat[x])]
    /\ UNCHANGED svcVars
    /\ UNCHANGED <<child, file, jobVars, callVars>>

\* Close(), first part: closeOnce, then l.WriteWatcher.Close().
CloseCall(s) ==
    /\ str[s].attached
    /\ str[s].cpc = "none"
    /\ str' = [str EXCEPT ![s] =
                 [@ EXCEPT !.cpc = "closeFile",
                           !.cread = IF str[s].rpc = "wait" /\ ~wat[s].closeSync
                                     THEN "pending" ELSE "no"]]
    /\ wat' = [wat EXCEPT ![s] = WatcherClose(@)]
    /\ UNCHANGED svcVars
    /\ UNCHANGED <<child, file, jobVars, callVars>>

\* Close(), second part: l.File.Close().
CloseFile(s) ==
    /\ str[s].cpc = "closeFile"
    /\ str' = [str EXCEPT ![s] = [@ EXCEPT !.cpc = "drain", !.fileClosed = TRUE]]
    /\ UNCHANGED svcVars
    /\ UNCHANGED <<child, file, jobVars, callVars, wat>>

\* Close(), third part: `for range l.WriteWatcher.Events() {}` takes a pulse.
CloseDrainPulse(s) ==
    /\ str[s].cpc = "drain"
    /\ wat[s].wpc = "send"
    /\ wat' = [wat EXCEPT ![s] = [@ EXCEPT !.wpc = "read"]]
    /\ UNCHANGED svcVars
    /\ UNCHANGED <<child, file, jobVars, callVars, str>>

\* Close() returns once the events channel is closed.
CloseReturn(s) ==
    /\ str[s].cpc = "drain"
    /\ wat[s].eventsClosed
    /\ str' = [str EXCEPT ![s] = [@ EXCEPT !.cpc = "closed"]]
    /\ UNCHANGED svcVars
    /\ UNCHANGED <<child, file, jobVars, callVars, wat>>

\* A further Close(), called once the first one has begun: closeOnce.Do does
\* not run the function again, and does not return before the first call's
\* function has returned.
CloseAgainCall(s) ==
    /\ str[s].cpc # "none"
    /\ str[s].c2 = "no"
    /\ str' = [str EXCEPT ![s] = [@ EXCEPT !.c2 = IF str[s].cpc = "closed"
                                                  THEN "late" ELSE "waiting"]]
    /\ UNCHANGED svcVars
    /\ UNCHANGED <<child, file, jobVars, callVars, wat>>

\* Mutant: without closeOnce the further Close() closes the watcher and the
\* file again; the second File.Close() fails.
CloseAgainReturn_NoOnce(s) ==
    /\ str[s].c2 \in {"late", "waiting"}
    /\ str[s].cpc = "closed"
    /\ str' = [str EXCEPT ![s] =
                 [@ EXCEPT !.c2 = IF str[s].c2 = "late" THEN "returned" ELSE "joined",
                           !.cerr2 = IF str[s].fileClosed THEN ErrClosed ELSE NoError,
                           !.fileClosed = TRUE]]
    /\ wat' = [wat EXCEPT ![s] = WatcherClose(@)]
    /\ UNCHANGED svcVars
    /\ UNCHANGED <<child, file, jobVars, callVars>>

\* The further Close() returns `err`, which nothing has assigned: nil.
CloseAgainReturn(s) ==
    /\ str[s].c2 \in {"late", "waiting"}
    /\ str[s].cpc = "closed"
    /\ str' = [str EXCEPT ![s] =
                 [@ EXCEPT !.c2 = IF str[s].c2 = "late" THEN "returned" ELSE "joined",
                           !.cerr2 = NoError]]
    /\ UNCHANGED svcVars
    /\ UNCHANGED <<child, file, jobVars, callVars, wat>>

\* The streamer observes the writer-done signal (processDone) and shuts its
\* watcher down, so that the events channel closes once the queued pulses are
\* consumed.
WriterDone(s) ==
    /\ str[s].attached
    /\ processDone
    /\ ~wat[s].closeSync
    /\ wat' = [wat EXCEPT ![s] = WatcherClose(@)]
    /\ UNCHANGED svcVars
    /\ UNCHANGED <<child, file, jobVars, callVars, str>>

\* ------------------------------------------------- job.New, as StartJob calls it
\* What can go wrong in New(): createOutputFile of either path, and c.Start().
StartOutcomes == [stdout : BOOLEAN, stderr : BOOLEAN, start : BOOLEAN]

\* New(args) when the system calls succeed as `o` says: the job or nil, the
\* error, the output files created on disk, the write handles opened and the
\* ones closed again before New returns, whether a child was spawned and
\* whether the supervision goroutine was started.  createOutputFile is called
\* for both paths before either result is looked at; logFileClose of a nil
\* handle closes nothing.
New(o) ==
    LET opened == {st \in Streams : o[st]} IN
    IF opened # Streams
    THEN [job |-> FALSE, err |-> "error creating output file(s)",
          created |-> opened, opened |-> opened, closed |-> opened,
          child |-> FALSE, sup |-> FALSE]
    ELSE IF ~o.start
    THEN [job |-> FALSE, err |-> "error starting process",
          created |-> opened, opened |-> opened, closed |-> opened,
          child |-> FALSE, sup |-> FALSE]
    ELSE [job |-> TRUE, err |-> NoError,
          created |-> opened, opened |-> opened, closed |-> {},
          child |-> TRUE, sup |-> TRUE]

\* ------------------------------------------ Jobby (internal/service/service.go)
JobIds == 1..MaxJobs
\* A job id that uuid.FromBytes rejects.
BadId == 0
Users == {"alice", "bob"}
NoJob == [Owner |-> "none", Job |-> FALSE]

\* gRPC status codes
OK == "OK"
InvalidArgument == "InvalidArgument"
NotFound == "NotFound"
Internal == "Internal"
Canceled == "Canceled"

\* The base directory of the service's output files (Jobby.directory).
directory == "scratch"

\* uuid.UUID.String(): the text of an identifier.
UuidString(id) == ToString(id)

\* outFilePath(base, u, prefix): filepath.Join(base, "<u>-<prefix>")
outFilePath(base, id, prefix) == base \o "/" \o UuidString(id) \o "-" \o prefix

\* The paths StartJob passes to job.New for the job id.
JobArgs(id) ==
    [StdoutPath |-> outFilePath(directory, id, "stdout"),
     StderrPath |-> outFilePath(directory, id, "sterr")]
NoArgs == [StdoutPath |-> "", StderrPath |-> ""]

NoStart == [code |-> "none", msg |-> "", id |-> 0, user |-> "none", args |-> NoArgs,
            new |-> [job |-> FALSE, err |-> NoError, created |-> {}, opened |-> {},
                     closed |-> {}, child |-> FALSE, sup |-> FALSE],
            before |-> [i \in JobIds |-> NoJob]]
NoRpc == [rpc |-> "none", user |-> "none", id |-> 0, code |-> "none", msg |-> "",
          target |-> "none"]

\* The GetJobOutput call: its position (hpc), the principal and the stream
\* asked for, whether the client has aborted the call (the context is
\* cancelled) and where the handler was then (abortAt: in its loop with no
\* Send failed, or later), the chunks sent and their concatenation, whether a
\* Send has failed (sendError), whether a read error is left after the
\* silencing (readError), and the status the handler returned.
NoOut ==
    [hpc |-> "none", user |-> "none", type |-> "stdout", cancelled |-> FALSE,
     abortAt |-> "never", chunks |-> <<>>, sent |-> <<>>, sendError |-> FALSE, readError |-> FALSE,
     code |-> "none"]

\* loadJob(&j.jobDirectory, id)
loadJob(id) == [data |-> jobDirectory[id], ok |-> jobDirectory[id] # NoJob]

\* Mutant: a job of another owner is answered with "permission denied".
getJob_PermissionDenied(u, id) ==
    IF id = BadId
    THEN [ok |-> FALSE, code |-> InvalidArgument, msg |-> "Must provide valid job id"]
    ELSE IF loadJob(id).ok /\ loadJob(id).data.Owner = u
    THEN [ok |-> TRUE, code |-> OK, msg |-> ""]
    ELSE IF loadJob(id).ok
    THEN [ok |-> FALSE, code |-> "PermissionDenied", msg |-> "Not your job"]
    ELSE [ok |-> FALSE, code |-> NotFound, msg |-> "No such job exists"]

\* Mutant: the owner of the job found is not compared with the principal.
getJob_IgnoresOwner(u, id) ==
    IF id = BadId
    THEN [ok |-> FALSE, code |-> InvalidArgument, msg |-> "Must provide valid job id"]
    ELSE IF loadJob(id).ok
    THEN [ok |-> TRUE, code |-> OK, msg |-> ""]
    ELSE [ok |-> FALSE, code |-> NotFound, msg |-> "No such job exists"]

\* getJob(ctx, getter) for the principal u and the job id of the request.
getJob(u, id) ==
    IF id = BadId
    THEN [ok |-> FALSE, code |-> InvalidArgument, msg |-> "Must provide valid job id"]
    ELSE IF loadJob(id).ok /\ loadJob(id).data.Owner = u
    THEN [ok |-> TRUE, code |-> OK, msg |-> ""]
    ELSE [ok |-> FALSE, code |-> NotFound, msg |-> "No such job exists"]

\* What a request is aimed at: a malformed id, an id never registered, a job
\* of another owner, or the principal's own job.
Target(u, id) ==
    IF id = BadId THEN "malformed"
    ELSE IF jobDirectory[id] = NoJob THEN "unknown"
    ELSE IF jobDirectory[id].Owner # u THEN "foreign"
    ELSE "own"

\* The response of a handler that got `res` ([code, msg]) for the request.
Respond(rpc, u, id, res) ==
    [rpc |-> rpc, user |-> u, id |-> id, code |-> res.code, msg |-> res.msg,
     target |-> Target(u, id)]

\* Mutant: the job is registered before job.New is known to have succeeded.
StartJob_StoresFirst(u, command, o) ==
    /\ IF command = ""
       THEN /\ lastStart' = [NoStart EXCEPT !.code = InvalidArgument,
                               !.msg = "Must provide non-empty command",
                               !.user = u, !.before = jobDirectory]
            /\ UNCHANGED jobDirectory
       ELSE \E id \in JobIds :
            /\ jobDirectory[id] = NoJob
            /\ jobDirectory' = [jobDirectory EXCEPT ![id] = [Owner |-> u, Job |-> TRUE]]
            /\ lastStart' = IF New(o).err # NoError
                            THEN [code |-> Internal, msg |-> "Error starting job",
                                  id |-> 0, user |-> u, new |-> New(o), args |-> JobArgs(id),
                                  before |-> jobDirectory]
                            ELSE [code |-> OK, msg |-> "", id |-> id, user |-> u,
                                  new |-> New(o), args |-> JobArgs(id),
                                  before |-> jobDirectory]
    /\ UNCHANGED <<child, file, jobVars, callVars, str, wat, lastRpc, out>>

\* Mutant: the identifier of the new job may be one that is in use.
StartJob_Recycles(u, command, o) ==
    /\ IF command = ""
       THEN /\ lastStart' = [NoStart EXCEPT !.code = InvalidArgument,
                               !.msg = "Must provide non-empty command",
                               !.user = u, !.before = jobDirectory]
            /\ UNCHANGED jobDirectory
       ELSE \E id \in JobIds :
            /\ IF New(o).err # NoError
               THEN /\ lastStart' = [code |-> Internal, msg |-> "Error starting job",
                                     id |-> 0, user |-> u, new |-> New(o), args |-> JobArgs(id),
                                     before |-> jobDirectory]
                    /\ UNCHANGED jobDirectory
               ELSE /\ jobDirectory' = [jobDirectory EXCEPT ![id] =
                                          [Owner |-> u, Job |-> TRUE]]
                    /\ lastStart' = [code |-> OK, msg |-> "", id |-> id, user |-> u,
                                     new |-> New(o), args |-> JobArgs(id),
                                     before |-> jobDirectory]
    /\ UNCHANGED <<child, file, jobVars, callVars, str, wat, lastRpc, out>>

\* StartJob: reject an empty command; draw a fresh id (uuid.New); job.New;
\* register the job under the principal only when New succeeded.
StartJob(u, command, o) ==
    /\ IF command = ""
       THEN /\ lastStart' = [NoStart EXCEPT !.code = InvalidArgument,
                               !.msg = "Must provide non-empty command",
                               !.user = u, !.before = jobDirectory]
            /\ UNCHANGED jobDirectory
       ELSE \E id \in JobIds :
            /\ jobDirectory[id] = NoJob
            /\ IF New(o).err # NoError
               THEN /\ lastStart' = [code |-> Internal, msg |-> "Error starting job",
                                     id |-> 0, user |-> u, new |-> New(o), args |-> JobArgs(id),
                                     before |-> jobDirectory]
                    /\ UNCHANGED jobDirectory
               ELSE /\ jobDirectory' = [jobDirectory EXCEPT ![id] =
                                          [Owner |-> u, Job |-> TRUE]]
                    /\ lastStart' = [code |-> OK, msg |-> "", id |-> id, user |-> u,
                                     new |-> New(o), args |-> JobArgs(id),
                                     before |-> jobDirectory]
    /\ UNCHANGED <<child, file, jobVars, callVars, str, wat, lastRpc, out>>

\* StopJob: look the job up; Job.Stop() of the job found returns jobErr.
StopJob(u, id, jobErr) ==
    /\ lastRpc' = Respond("StopJob", u, id,
                    IF ~getJob(u, id).ok THEN getJob(u, id)
                    ELSE IF jobErr # NoError
                    THEN [code |-> Internal, msg |-> "failed to stop job"]
                    ELSE [code |-> OK, msg |-> ""])
    /\ UNCHANGED <<child, file, jobVars, callVars, str, wat, jobDirectory, lastStart, out>>

\* GetStatus: look the job up; Job.Status() of the job found returns state st.
GetStatus(u, id, st) ==
    /\ lastRpc' = Respond("GetStatus", u, id,
                    IF ~getJob(u, id).ok THEN getJob(u, id)
                    ELSE [code |-> OK, msg |-> st])
    /\ UNCHANGED <<child, file, jobVars, callVars, str, wat, jobDirectory, lastStart, out>>

\* The ways the streaming loop of GetJobOutput ends.
OutputEnds == {EOF, "read error", "send error", "cancelled"}

\* GetJobOutput: look the job up (before the output type is looked at); attach
\* a reader of the stream asked for; stream until one side fails.
GetJobOutput(u, id, type, end) ==
    /\ lastRpc' = Respond("GetJobOutput", u, id,
                    IF ~getJob(u, id).ok THEN getJob(u, id)
                    ELSE IF type \notin Streams
                    THEN [code |-> InvalidArgument, msg |-> "Must specify valid output type"]
                    ELSE IF end \in {"read error", "send error"}
                    THEN [code |-> Internal,
                          msg |-> "Error occurred while reading process output"]
                    ELSE IF end = "cancelled" THEN [code |-> Canceled, msg |-> ""]
                    ELSE [code |-> OK, msg |-> ""])
    /\ UNCHANGED <<child, file, jobVars, callVars, str, wat, jobDirectory, lastStart, out>>

\* ------------------------- the handlers, serving the job whose state is tracked
\* The id under which StartJob registered the job, and its owner.
TheJob == 1
TheOwner == "alice"

\* The streamer GetJobOutput attaches.
H == 1

\* Mutant: userKilled is set whatever Kill() returned.
ServeStopJob_FlagsAnyway(u, id) ==
    /\ IF getJob(u, id).ok
       THEN /\ jobLock = "free"
            /\ IF ~processExited
               THEN /\ child' = KillEffect
                    /\ userKilled' = TRUE
                    /\ lastStop' = KillError
               ELSE /\ lastStop' = NoError
                    /\ UNCHANGED <<child, userKilled>>
            /\ lastRpc' = Respond("StopJob", u, id,
                            IF ~processExited /\ KillError # NoError
                            THEN [code |-> Internal, msg |-> "failed to stop job"]
                            ELSE [code |-> OK, msg |-> ""])
       ELSE /\ lastRpc' = Respond("StopJob", u, id, getJob(u, id))
            /\ UNCHANGED <<child, userKilled, lastStop>>
    /\ UNCHANGED <<file, jobLock, processExited, processDone, exitErr, outOpen, supPc,
                   lastStatus, str, wat, jobDirectory, lastStart, out>>

\* StopJob: getJob, then Job.Stop() of the job found; its error is answered
\* with codes.Internal.
ServeStopJob(u, id) ==
    /\ IF getJob(u, id).ok
       THEN /\ jobLock = "free"
            /\ IF ~processExited
               THEN /\ child' = KillEffect
                    /\ userKilled' = (userKilled \/ KillError = NoError)
                    /\ lastStop' = KillError
               ELSE /\ lastStop' = NoError
                    /\ UNCHANGED <<child, userKilled>>
            /\ lastRpc' = Respond("StopJob", u, id,
                            IF ~processExited /\ KillError # NoError
                            THEN [code |-> Internal, msg |-> "failed to stop job"]
                            ELSE [code |-> OK, msg |-> ""])
       ELSE /\ lastRpc' = Respond("StopJob", u, id, getJob(u, id))
            /\ UNCHANGED <<child, userKilled, lastStop>>
    /\ UNCHANGED <<file, jobLock, processExited, processDone, exitErr, outOpen, supPc,
                   lastStatus, str, wat, jobDirectory, lastStart, out>>

\* GetStatus: getJob, then Job.Status() of the job found.
ServeGetStatus(u, id) ==
    /\ IF getJob(u, id).ok
       THEN /\ jobLock = "free"
            /\ lastRpc' = Respond("GetStatus", u, id,
                            [code |-> OK,
                             msg |-> newState(processExited, userKilled, exitErr)])
       ELSE lastRpc' = Respond("GetStatus", u, id, getJob(u, id))
    /\ UNCHANGED <<child, file, jobVars, callVars, str, wat, jobDirectory, lastStart, out>>

\* GetJobOutput, up to the reader: getJob, then the output type.  A request
\* that passes both goes on to attach its reader.
ServeOutputCall(u, id, type) ==
    /\ out.hpc = "none"
    /\ IF ~getJob(u, id).ok
       THEN /\ lastRpc' = Respond("GetJobOutput", u, id, getJob(u, id))
            /\ UNCHANGED out
       ELSE IF type \notin Streams
       THEN /\ lastRpc' = Respond("GetJobOutput", u, id,
                            [code |-> InvalidArgument,
                             msg |-> "Must specify valid output type"])
            /\ UNCHANGED out
       ELSE /\ out' = [NoOut EXCEPT !.hpc = "open", !.user = u, !.type = type]
            /\ UNCHANGED lastRpc
    /\ UNCHANGED <<child, file, jobVars, callVars, str, wat, jobDirectory, lastStart>>

\* jobData.Job.Stdout() / Stderr()
ServeOutputAttach ==
    /\ out.hpc = "open"
    /\ Attach(H, out.type)

\* The client aborts the call: the context of the stream is cancelled.
ClientCancel ==
    /\ out.hpc \in {"open", "closing"}
    /\ ~out.cancelled
    /\ out' = [out EXCEPT !.cancelled = TRUE,
                          !.abortAt = IF out.hpc = "open" /\ ~out.sendError
                                      THEN "loop" ELSE "end"]
    /\ UNCHANGED <<child, file, jobVars, callVars, str, wat, jobDirectory, lastStart,
                   lastRpc>>

\* The function context.AfterFunc registered: reader.Close().
ServeOutputCancelled ==
    /\ out.cancelled
    /\ CloseCall(H)

\* The loop is at its head: the reader is attached, the last Read returned no
\* error, what it returned has been sent.
AtLoopHead ==
    /\ out.hpc = "open"
    /\ str[H].attached /\ str[H].rpc = "idle"
    /\ str[H].lastErr \in {"none", NoError}
    /\ ~out.sendError
    /\ out.sent = str[H].delivered

\* count, readError = reader.Read(buf)
ServeOutputRead ==
    /\ AtLoopHead
    /\ ReadCall(H, defaultOutputBufferSize)

\* The Read that waits in the loop goes on.
ServeOutputWake ==
    /\ out.hpc = "open"
    /\ \/ ReadPulse(H, defaultOutputBufferSize)
       \/ ReadClosed(H, defaultOutputBufferSize)

\* The bytes the last Read returned and the loop has not sent yet.
Unsent == SubSeq(str[H].delivered, Len(out.sent) + 1, Len(str[H].delivered))

\* Mutant: the loop sends a response after every Read, also an empty one.
ServeOutputSend_Always(ok) ==
    /\ out.hpc = "open"
    /\ str[H].attached /\ str[H].rpc = "idle" /\ str[H].lastErr # "none"
    /\ ~out.sendError
    /\ Len(out.chunks) < MaxFileLen + 1
    /\ out' = IF ok
              THEN [out EXCEPT !.chunks = Append(@, Unsent), !.sent = @ \o Unsent]
              ELSE [out EXCEPT !.sendError = TRUE]
    /\ UNCHANGED <<child, file, jobVars, callVars, str, wat, jobDirectory, lastStart,
                   lastRpc>>

\* if count > 0: srv.Send of a copy of buf[:count]; the Send succeeds or not.
ServeOutputSend(ok) ==
    /\ out.hpc = "open"
    /\ str[H].attached /\ str[H].rpc = "idle"
    /\ ~out.sendError
    /\ Unsent # <<>>
    /\ out' = IF ok
              THEN [out EXCEPT !.chunks = Append(@, Unsent), !.sent = @ \o Unsent]
              ELSE [out EXCEPT !.sendError = TRUE]
    /\ UNCHANGED <<child, file, jobVars, callVars, str, wat, jobDirectory, lastStart,
                   lastRpc>>

\* The loop ends on a read error or a send error.  The read error is silenced
\* when it is io.EOF or when the context is cancelled.
ServeOutputEnd ==
    /\ out.hpc = "open"
    /\ str[H].attached /\ str[H].rpc = "idle"
    /\ \/ out.sendError
       \/ Unsent = <<>> /\ str[H].lastErr \notin {"none", NoError}
    /\ out' = [out EXCEPT !.hpc = "closing",
                          !.readError = /\ str[H].lastErr \notin {"none", NoError, EOF}
                                        /\ ~out.cancelled]
    /\ UNCHANGED <<child, file, jobVars, callVars, str, wat, jobDirectory, lastStart,
                   lastRpc>>

\* reader.Close() of the handler itself.
ServeOutputClose ==
    /\ out.hpc = "closing"
    /\ CloseCall(H)

\* A Close() of the reader that has begun goes on.
ServeOutputClosing ==
    \/ CloseFile(H)
    \/ CloseDrainPulse(H)
    \/ CloseReturn(H)

\* Mutant: the handler returns the status of the context only.
ServeOutputReturn_ContextOnly ==
    /\ out.hpc = "closing"
    /\ str[H].cpc = "closed"
    /\ LET code == IF out.cancelled THEN Canceled ELSE OK IN
       /\ out' = [out EXCEPT !.hpc = "done", !.code = code]
       /\ lastRpc' = Respond("GetJobOutput", out.user, TheJob, [code |-> code, msg |-> ""])
    /\ UNCHANGED <<child, file, jobVars, callVars, str, wat, jobDirectory, lastStart>>

\* Mutant: the handler returns without its reader.Close().
ServeOutputReturn_NoClose ==
    /\ out.hpc = "closing"
    /\ LET code == IF out.sendError \/ out.readError THEN Internal
                   ELSE IF out.cancelled THEN Canceled ELSE OK IN
       /\ out' = [out EXCEPT !.hpc = "done", !.code = code]
       /\ lastRpc' = Respond("GetJobOutput", out.user, TheJob, [code |-> code, msg |-> ""])
    /\ UNCHANGED <<child, file, jobVars, callVars, str, wat, jobDirectory, lastStart>>

\* The handler returns once reader.Close() has returned (nil): Internal if a
\* send error or a read error is left, else the error of the context.
ServeOutputReturn ==
    /\ out.hpc = "closing"
    /\ str[H].cpc = "closed"
    /\ LET code == IF out.sendError \/ out.readError THEN Internal
                   ELSE IF out.cancelled THEN Canceled ELSE OK IN
       /\ out' = [out EXCEPT !.hpc = "done", !.code = code]
       /\ lastRpc' = Respond("GetJobOutput", out.user, TheJob, [code |-> code, msg |-> ""])
    /\ UNCHANGED <<child, file, jobVars, callVars, str, wat, jobDirectory, lastStart>>

\* ------------------------------------------------------------ specification
\* A job as New() returns it, with no streamer attached.
JobInit ==
    /\ child = [state |-> "running", term |-> NoTermination]
    /\ file = [st \in Streams |-> <<>>]
    /\ jobLock = "free"
    /\ processExited = FALSE
    /\ processDone = FALSE
    /\ exitErr = NilExitErr
    /\ userKilled = FALSE
    /\ outOpen = [st \in Streams |-> TRUE]
    /\ supPc = "wait"
    /\ lastStatus = NoStatus
    /\ lastStop = "none"
    /\ str = [s \in Streamers |-> NoStreamer]
    /\ wat = [s \in Streamers |-> NoWatcher]

Init ==
    /\ JobInit
    /\ jobDirectory = [i \in JobIds |-> NoJob]
    /\ lastStart = NoStart
    /\ lastRpc = NoRpc
    /\ out = NoOut

\* The child's and the supervision goroutine's steps.
LifeNext ==
    \/ SupWait
    \/ SupLock
    \/ SupCloseDone
    \/ SupRecord
    \/ SupUnlock
    \/ SupCloseStderr
    \/ SupCloseStdout
    \/ \E t \in Terminations : ChildExit(t)

\* The callers of Status() and Stop().
CallNext ==
    \/ Status
    \/ Stop
    \/ ChildKilled

\* The output files, their streamers and watchers.
StreamNext ==
    \/ \E st \in Streams : ChildWrite(st)
    \/ \E s \in Streamers, st \in Streams : Attach(s, st)
    \/ \E s \in Streamers, n \in 1..MaxBuf : ReadCall(s, n)
    \/ \E s \in Streamers, n \in 1..MaxBuf : ReadPulse(s, n)
    \/ \E s \in Streamers, n \in 1..MaxBuf : ReadClosed(s, n)
    \/ \E s \in Streamers : CloseCall(s)
    \/ \E s \in Streamers : CloseFile(s)
    \/ \E s \in Streamers : CloseDrainPulse(s)
    \/ \E s \in Streamers : CloseReturn(s)
    \/ \E s \in Streamers : WriterDone(s)
    \/ \E s \in Streamers : WatchRead(s)
    \/ \E s \in Streamers : WatchExit(s)

\* The requests the service handles.
SvcNext ==
    \/ \E u \in Users, command \in {"", "echo"}, o \in StartOutcomes : StartJob(u, command, o)
    \/ \E u \in Users, id \in JobIds \cup {BadId}, e \in {NoError, ErrProcessDone} :
         StopJob(u, id, e)
    \/ \E u \in Users, id \in JobIds \cup {BadId},
          st \in {JobStatusRunning, JobstatusComplete, JobStatusStopped} :
         GetStatus(u, id, st)
    \/ \E u \in Users, id \in JobIds \cup {BadId}, type \in Streams \cup {"unspecified"},
          end \in OutputEnds :
         GetJobOutput(u, id, type, end)

\* The service and its registry.
SpecSvc == Init /\ [][SvcNext]_vars

\* The state after StartJob has started and registered the job for its owner.
InitServed ==
    /\ JobInit
    /\ jobDirectory = [i \in JobIds |->
                         IF i = TheJob THEN [Owner |-> TheOwner, Job |-> TRUE] ELSE NoJob]
    /\ lastStart = [code |-> OK, msg |-> "", id |-> TheJob, user |-> TheOwner,
                    new |-> New([stdout |-> TRUE, stderr |-> TRUE, start |-> TRUE]),
                    args |-> JobArgs(TheJob),
                    before |-> [i \in JobIds |-> NoJob]]
    /\ lastRpc = NoRpc
    /\ out = NoOut

\* The requests for the job, from its owner and from others, up to the point
\* where a GetJobOutput has its reader.
ServeNext ==
    \/ \E u \in Users, id \in JobIds \cup {BadId} : ServeStopJob(u, id)
    \/ \E u \in Users, id \in JobIds \cup {BadId} : ServeGetStatus(u, id)
    \/ \E u \in Users, id \in JobIds \cup {BadId}, type \in Streams \cup {"unspecified"} :
         ServeOutputCall(u, id, type)
    \/ ServeOutputAttach
    \/ LifeNext
    \/ ChildKilled

SpecServe == InitServed /\ [][ServeNext]_vars

\* A GetJobOutput of the owner, from the request to the return of the
\* handler, while the child writes and terminates and the client may abort.
OutputNext ==
    \/ \E type \in Streams : ServeOutputCall(TheOwner, TheJob, type)
    \/ ServeOutputAttach
    \/ ClientCancel
    \/ ServeOutputCancelled
    \/ ServeOutputRead
    \/ ServeOutputWake
    \/ \E ok \in BOOLEAN : ServeOutputSend(ok)
    \/ ServeOutputEnd
    \/ ServeOutputClose
    \/ ServeOutputClosing
    \/ ServeOutputReturn
    \/ LifeNext
    \/ \E st \in Streams : ChildWrite(st)
    \/ WriterDone(H)
    \/ WatchRead(H)
    \/ WatchExit(H)

SpecOutput == InitServed /\ [][OutputNext]_vars

\* GetJobOutput requests of every principal for every id and stream
\* selector, from the request to the return of the handler, while the child
\* writes to stdout and terminates, the client may abort, and the read of
\* the watcher's descriptor may fail.
HandlerNext ==
    \/ \E u \in Users, id \in JobIds \cup {BadId}, type \in Streams \cup {"unspecified"} :
         ServeOutputCall(u, id, type)
    \/ ServeOutputAttach
    \/ ClientCancel
    \/ ServeOutputCancelled
    \/ ServeOutputRead
    \/ ServeOutputWake
    \/ \E ok \in BOOLEAN : ServeOutputSend(ok)
    \/ ServeOutputEnd
    \/ ServeOutputClose
    \/ ServeOutputClosing
    \/ ServeOutputReturn
    \/ LifeNext
    \/ ChildWrite("stdout")
    \/ WriterDone(H)
    \/ WatchRead(H)
    \/ WatchExit(H)
    \/ WatchReadError(H)

SpecHandler == InitServed /\ [][HandlerNext]_vars

\* A job whose output is streamed.
Next == LifeNext \/ StreamNext

Spec == Init /\ [][Next]_vars

\* A job whose callers ask for its status and stop it.
JobNext == LifeNext \/ CallNext

SpecJob == Init /\ [][JobNext]_vars

\* The Go scheduler runs every goroutine that can take a step: the supervision
\* goroutine, each watcher's goroutine, each streamer's shutdown on
\* processDone, a Close() in progress; and the caller of a streamer keeps
\* calling Read.
Fairness ==
    /\ WF_vars(SupWait) /\ WF_vars(SupLock) /\ WF_vars(SupCloseDone)
    /\ WF_vars(SupRecord) /\ WF_vars(SupUnlock)
    /\ WF_vars(SupCloseStderr) /\ WF_vars(SupCloseStdout)
    /\ \A s \in Streamers :
         /\ WF_vars(WatchRead(s)) /\ WF_vars(WatchExit(s)) /\ WF_vars(WriterDone(s))
         /\ WF_vars(CloseFile(s)) /\ WF_vars(CloseDrainPulse(s)) /\ WF_vars(CloseReturn(s))
         /\ WF_vars(\E n \in 1..MaxBuf : ReadCall(s, n))
         /\ WF_vars(\E n \in 1..MaxBuf : ReadPulse(s, n))
         /\ WF_vars(\E n \in 1..MaxBuf : ReadClosed(s, n))

SpecLive == Init /\ [][Next]_vars /\ Fairness

\* A job whose streamers are closed more than once.
CloseNext ==
    \/ Next
    \/ \E s \in Streamers : CloseAgainCall(s)
    \/ \E s \in Streamers : CloseAgainReturn(s)

SpecClose == Init /\ [][CloseNext]_vars

\* Two readers of one job: Broken reads and is closed, also while it reads;
\* Other reads to the end and is never closed.
Broken == 1
Other == 2
Pair == {Broken, Other}

PairInit ==
    /\ child = [state |-> "running", term |-> NoTermination]
    /\ file = [st \in Streams |-> <<>>]
    /\ jobLock = "free"
    /\ processExited = FALSE
    /\ processDone = FALSE
    /\ exitErr = NilExitErr
    /\ userKilled = FALSE
    /\ outOpen = [st \in Streams |-> TRUE]
    /\ supPc = "wait"
    /\ lastStatus = NoStatus
    /\ lastStop = "none"
    /\ str = [s \in Pair |-> NoStreamer]
    /\ wat = [s \in Pair |-> NoWatcher]
    /\ jobDirectory = [i \in JobIds |-> NoJob]
    /\ lastStart = NoStart
    /\ lastRpc = NoRpc
    /\ out = NoOut

\* The steps of the reader s and of its watcher's goroutine.
ReaderNext(s) ==
    \/ ReadCall(s, MaxBuf)
    \/ ReadPulse(s, MaxBuf)
    \/ ReadClosed(s, MaxBuf)
    \/ WriterDone(s)
    \/ WatchRead(s)
    \/ WatchExit(s)

\* The steps of a Close() of the reader s.
CloserNext(s) ==
    \/ CloseCall(s)
    \/ CloseFile(s)
    \/ CloseDrainPulse(s)
    \/ CloseReturn(s)

\* The child writes to stdout and exits; Other reads stdout, Broken reads
\* stdout or stderr.
PairNext ==
    \/ SupWait
    \/ SupLock
    \/ SupCloseDone
    \/ SupRecord
    \/ SupUnlock
    \/ SupCloseStderr
    \/ SupCloseStdout
    \/ ChildExit([kind |-> "exit", code |-> 0, sig |-> NoSignal, by |-> "self"])
    \/ ChildWrite("stdout")
    \/ \E st \in Streams : Attach(Broken, st)
    \/ Attach(Other, "stdout")
    \/ ReaderNext(Broken)
    \/ CloserNext(Broken)
    \/ ReaderNext(Other)

SpecPair == PairInit /\ [][PairNext]_vars

\* A job whose output is streamed by a reader that is not closed, while the
\* reader's watcher may fail: its read of the descriptor, or an unexpected
\* event.
FailNext ==
    \/ LifeNext
    \/ \E st \in Streams : ChildWrite(st)
    \/ \E s \in Streamers, st \in Streams : Attach(s, st)
    \/ \E s \in Streamers, n \in 1..MaxBuf : ReadCall(s, n)
    \/ \E s \in Streamers, n \in 1..MaxBuf : ReadPulse(s, n)
    \/ \E s \in Streamers, n \in 1..MaxBuf : ReadClosed(s, n)
    \/ \E s \in Streamers : WriterDone(s)
    \/ \E s \in Streamers : WatchRead(s)
    \/ \E s \in Streamers : WatchExit(s)
    \/ \E s \in Streamers : WatchReadError(s)
    \/ \E s \in Streamers : KernelUnexpected(s)

SpecFail == Init /\ [][FailNext]_vars

\* A watcher used directly: its creator consumes the pulses and calls
\* Close(), the file is written to, and the read of the descriptor or the
\* kernel's events may go wrong.
W == 1

WatchNext ==
    \/ NewWatcher(W)
    \/ ChildWrite("stdout")
    \/ KernelUnexpected(W)
    \/ WatchRead(W)
    \/ WatchReadError(W)
    \/ EventsReceive(W)
    \/ WatcherCloseRm(W)
    \/ WatcherCloseSync(W)
    \/ WatcherCloseAgain(W)
    \/ WatchExit(W)

SpecWatch == Init /\ [][WatchNext]_vars

\* The goroutine of the watcher is scheduled, the consumer drains Events(),
\* and a Close() that has begun goes on.
WatchFairness ==
    /\ WF_vars(WatchRead(W)) /\ WF_vars(WatchExit(W))
    /\ WF_vars(EventsReceive(W)) /\ WF_vars(WatcherCloseSync(W))

SpecWatchLive == Init /\ [][WatchNext]_vars /\ WatchFairness

\* The supervision goroutine is scheduled, and the kernel delivers a kill
\* signal that was sent.
JobFairness ==
    /\ WF_vars(SupWait) /\ WF_vars(SupLock) /\ WF_vars(SupCloseDone)
    /\ WF_vars(SupRecord) /\ WF_vars(SupUnlock)
    /\ WF_vars(SupCloseStderr) /\ WF_vars(SupCloseStdout)
    /\ WF_vars(ChildKilled)

SpecJobLive == Init /\ [][JobNext]_vars /\ JobFairness

\* A job whose child writes no output, with all its callers: Status(), Stop(),
\* and the readers that attach to its output, read, wait and close.
QuietNext ==
    \/ LifeNext
    \/ CallNext
    \/ \E s \in Streamers, st \in Streams : Attach(s, st)
    \/ \E s \in Streamers, n \in 1..MaxBuf : ReadCall(s, n)
    \/ \E s \in Streamers, n \in 1..MaxBuf : ReadClosed(s, n)
    \/ \E s \in Streamers : CloseCall(s)
    \/ \E s \in Streamers : CloseFile(s)
    \/ \E s \in Streamers : CloseReturn(s)
    \/ \E s \in Streamers : WriterDone(s)
    \/ \E s \in Streamers : WatchRead(s)
    \/ \E s \in Streamers : WatchExit(s)

SpecQuietLive == Init /\ [][QuietNext]_vars /\ Fairness /\ WF_vars(ChildKilled)

\* ------------------------------------------------------------------ claims
Terminal == {EOF} \cup Errors

\* The streamer's last Read has returned (it is not blocked in a Read).
Returned(s) == str[s].attached /\ str[s].rpc = "idle" /\ str[s].lastErr # "none"

\* C1: any two streamers on the same stream that reached end-of-stream have
\* delivered the same bytes, which are exactly the bytes the child wrote to
\* that file.
C1_SameCompleteBytes ==
    \A s1, s2 \in Streamers :
      (/\ Returned(s1) /\ Returned(s2)
       /\ str[s1].stream = str[s2].stream
       /\ str[s1].lastErr = EOF /\ str[s2].lastErr = EOF)
      => /\ str[s1].delivered = str[s2].delivered
         /\ str[s1].delivered = file[str[s1].stream]

\* C2: a Read returns end-of-stream only when writer-done (processDone) has
\* fired and the file has been read to its end.
C2_EofOnlyAfterDone ==
    \A s \in Streamers :
      (Returned(s) /\ str[s].lastErr = EOF)
      => processDone /\ str[s].offset = Len(file[str[s].stream])

\* The streamer's caller has never called Close().
NotClosed(s) == str[s].attached /\ str[s].cpc = "none"

AtEndOfStream(s) == Returned(s) /\ str[s].lastErr = EOF

\* C3: once writer-done (processDone) has fired, a streamer that is not closed
\* and whose caller keeps calling Read gets end-of-stream, and by then every
\* byte of the file has been delivered.
C3_EofAfterDone ==
    /\ [](\A s \in Streamers :
           (NotClosed(s) /\ AtEndOfStream(s))
           => processDone /\ str[s].delivered = file[str[s].stream])
    /\ \A s \in Streamers :
         (processDone /\ NotClosed(s)) ~> (AtEndOfStream(s) \/ ~NotClosed(s))

C3_Witness ==
    \E s \in Streamers :
      /\ NotClosed(s) /\ AtEndOfStream(s) /\ ~str[s].late
      /\ Len(str[s].delivered) = MaxFileLen

\* C4: a streamer attached after writer-done has fired is never sent a pulse,
\* delivers the whole file from byte 0 and then gets end-of-stream.
C4_LateAttach ==
    /\ [](\A s \in Streamers :
           (str[s].attached /\ str[s].late)
           => /\ wat[s].wpc # "send" /\ wat[s].queue \in {<<>>, <<IN_IGNORED>>}
              /\ str[s].delivered = SubSeq(file[str[s].stream], 1, str[s].offset)
              /\ AtEndOfStream(s) => str[s].delivered = file[str[s].stream])
    /\ \A s \in Streamers :
         (str[s].late /\ NotClosed(s)) ~> (AtEndOfStream(s) \/ ~NotClosed(s))

C4_Witness ==
    \E s \in Streamers :
      /\ str[s].late /\ NotClosed(s) /\ AtEndOfStream(s)
      /\ Len(str[s].delivered) = MaxFileLen

C6_StickyTerminal ==
    [][\A s \in Streamers :
         (Returned(s) /\ str[s].lastErr \in Terminal)
         => /\ str'[s].rpc = "idle"
            /\ str'[s].lastN = 0
            /\ str'[s].lastErr = str[s].lastErr
            /\ str'[s].delivered = str[s].delivered]_vars

C6_Witness ==
    \E s \in Streamers :
      Returned(s) /\ str[s].sticky /\ str[s].lastErr = EOF /\ str[s].delivered # <<>>

\* C7 as stated: a Read called after Close() has returned returns a terminal
\* error, never end-of-stream and never data.
C7_ErrorAfterClose ==
    \A s \in Streamers :
      (Returned(s) /\ str[s].afterClose)
      => str[s].lastN = 0 /\ str[s].lastErr \in Errors

\* C7 amended: a Read called after Close() has returned returns no data; it
\* returns a terminal error, or end-of-stream when an earlier Read had
\* already set the sticky end-of-stream.
C7_TerminalAfterClose ==
    \A s \in Streamers :
      (Returned(s) /\ str[s].afterClose)
      => /\ str[s].lastN = 0
         /\ str[s].lastErr \in Errors \/ (str[s].lastErr = EOF /\ str[s].sticky)

C7_Witness ==
    \E s \in Streamers :
      /\ Returned(s) /\ str[s].afterClose /\ str[s].lastErr = ErrClosed
      /\ str[s].offset < Len(file[str[s].stream])

\* C8: the Read that was blocked when Close() was called returns a terminal
\* error once the close has woken it.
C8_CloseUnblocksWithError ==
    \A s \in Streamers :
      (Returned(s) /\ str[s].cread = "returned")
      => str[s].lastN = 0 /\ str[s].lastErr \in Errors

\* C9: the state Status() returns is Running if the exit is not recorded,
\* Stopped if it is recorded, user_killed is set and the child was terminated
\* by the kill signal, and Complete in every other case.
C9_StatusOfCell ==
    lastStatus.CurrentState # "none" =>
      lastStatus.CurrentState =
        IF ~lastStatus.cell.exited THEN JobStatusRunning
        ELSE IF /\ lastStatus.cell.userKilled
                /\ lastStatus.cell.term.kind = "signal"
                /\ lastStatus.cell.term.sig = SIGKILL
             THEN JobStatusStopped
             ELSE JobstatusComplete

C9_Witness ==
    /\ lastStatus.CurrentState = JobStatusStopped
    /\ lastStatus.cell.term.by = "user"

\* C10: a child that terminated by itself is reported Complete once its exit
\* is recorded, never Stopped, also when a Stop() that raced with the exit
\* returned success and set userKilled.
C10_OwnExitIsComplete ==
    (lastStatus.cell.exited /\ lastStatus.cell.term.by = "self")
    => lastStatus.CurrentState = JobstatusComplete

C10_Witness ==
    /\ lastStatus.cell.exited
    /\ lastStatus.cell.term.by = "self"
    /\ lastStatus.cell.userKilled
    /\ lastStop = NoError
    /\ lastStatus.CurrentState = JobstatusComplete

StatusTerminal == {JobStatusStopped, JobstatusComplete}

\* C11: Status() returns Running exactly as long as the exit is not recorded;
\* a Status() that finds processDone closed returns Stopped or Complete; and
\* once Status() has returned Stopped or Complete, no later Status() returns
\* anything else.
C11_StatusTerminalAfterDone ==
    /\ [](lastStatus.CurrentState # "none" =>
           /\ lastStatus.CurrentState = JobStatusRunning <=> ~lastStatus.cell.exited
           /\ lastStatus.cell.done => lastStatus.CurrentState \in StatusTerminal)
    /\ [][lastStatus.CurrentState \in StatusTerminal
           => lastStatus'.CurrentState = lastStatus.CurrentState]_vars

C11_Witness ==
    /\ lastStatus.cell.done
    /\ lastStatus.CurrentState = JobstatusComplete
    /\ lastStatus.cell.term.sig = SIGKILL
    /\ lastStop = NoError

\* C12: once the child has terminated, the supervision goroutine records the
\* exit and closes processDone, whatever Stop(), Status(), attaching, reading
\* and closing of streamers go on meanwhile; from then on Status() does not
\* return Running, and a Read that is waiting returns.
C12_ExitIsRecorded ==
    /\ (child.state = "zombie") ~> (processExited /\ processDone /\ jobLock = "free")
    /\ [](processExited =>
           /\ processDone
           /\ newState(processExited, userKilled, exitErr) # JobStatusRunning)
    /\ [][processExited => processExited']_vars
    /\ \A s \in Streamers :
         (child.state \in {"zombie", "reaped"} /\ str[s].rpc = "wait") ~> (str[s].rpc = "idle")

\* A reader that attached before processDone was closed has waited and got
\* its end-of-stream, in a job that was both stopped and asked for its status.
C12_Witness ==
    /\ processExited /\ processDone /\ userKilled
    /\ lastStatus.CurrentState = JobStatusStopped
    /\ \E s \in Streamers :
         /\ Returned(s) /\ str[s].lastErr = EOF
         /\ ~str[s].late /\ ~str[s].sticky /\ NotClosed(s)

\* C13: a Stop() that finds the child running returns success and sends the
\* kill; once the kill is delivered the exit gets recorded and from then on
\* Status() is Stopped for good, and every Status() taken of the recorded exit
\* of a child that Stop() killed has returned Stopped.
C13_StopLeadsToStopped ==
    /\ [][(child.state = "running" /\ Stop)
           => (lastStop' = NoError /\ userKilled' /\ child'.state = "killed")]_vars
    /\ (child.state = "killed")
         ~> [](/\ processExited /\ jobLock = "free"
               /\ newState(processExited, userKilled, exitErr) = JobStatusStopped)
    /\ []((lastStatus.cell.exited /\ lastStatus.cell.term.by = "user")
           => lastStatus.CurrentState = JobStatusStopped)

C13_Witness ==
    /\ lastStop = NoError
    /\ child.term.by = "user"
    /\ supPc = "end"
    /\ lastStatus.cell.done
    /\ lastStatus.CurrentState = JobStatusStopped

\* C14: a Stop() called when processDone is closed returns success, sends no
\* signal, and leaves the exit-state cell and what Status() returns as they
\* were.
C14_StopAfterDone ==
    [][(processDone /\ Stop)
       => /\ lastStop' = NoError
          /\ UNCHANGED <<child, processExited, userKilled, exitErr, processDone,
                         jobLock, supPc, outOpen>>
          /\ newState(processExited', userKilled', exitErr')
               = newState(processExited, userKilled, exitErr)
          /\ ReturnCode(exitErr') = ReturnCode(exitErr)]_vars

\* A Stop() has returned success without a kill: userKilled is not set.
C14_Witness ==
    /\ processDone
    /\ lastStop = NoError
    /\ ~userKilled
    /\ lastStatus.cell.done
    /\ lastStatus.CurrentState = JobstatusComplete

\* C15: a Stop() that is not the first one changes nothing but its own return
\* value: not the child, not the exit-state cell, not what Status() returns.
C15_StopIdempotent ==
    [][(lastStop # "none" /\ Stop)
       => /\ UNCHANGED <<child, processExited, userKilled, exitErr, processDone,
                         jobLock, supPc, outOpen, lastStatus>>
          /\ newState(processExited', userKilled', exitErr')
               = newState(processExited, userKilled, exitErr)]_vars

\* Two Stop() calls with different outcomes: an earlier one succeeded
\* (userKilled), the last one failed.
C15_Witness ==
    /\ userKilled
    /\ lastStop = ErrProcessDone

C17_ExitCodeOnlyForExit ==
    (lastStatus.CurrentState # "none" /\ lastStatus.ReturnCode.present)
    => /\ lastStatus.CurrentState = JobstatusComplete
       /\ lastStatus.cell.term.kind = "exit"

\* C18: a Status() of the recorded exit of a child that terminated with an
\* exit code is Complete and carries that exit code, 0 included.
C18_NaturalExitHasCode ==
    (lastStatus.cell.exited /\ lastStatus.cell.term.kind = "exit")
    => /\ lastStatus.CurrentState = JobstatusComplete
       /\ lastStatus.ReturnCode = [present |-> TRUE, code |-> lastStatus.cell.term.code]

C20_ForeignIsUnknown ==
    /\ \A u \in Users, i \in JobIds, k \in JobIds :
         (Target(u, i) = "foreign" /\ Target(u, k) = "unknown")
         => getJob(u, i) = getJob(u, k)
    /\ lastRpc.target \in {"foreign", "unknown"} =>
         /\ lastRpc.code = NotFound
         /\ lastRpc.msg = "No such job exists"

C20_Witness ==
    /\ lastRpc.target = "foreign"
    /\ lastRpc.rpc = "GetJobOutput"
    /\ lastRpc.code = NotFound
    /\ \E k \in JobIds : jobDirectory[k] = NoJob

\* C29: processDone is closed once, and only when the child is reaped, the
\* exit is recorded, the job lock is released again and the job has closed
\* both output files: whoever sees processDone closed sees all of that.
C29_DoneAfterRecordAndClose ==
    processDone =>
      /\ child.state = "reaped"
      /\ processExited
      /\ jobLock = "free"
      /\ \A st \in Streams : ~outOpen[st]

\* C30: processExited goes from false to true and never back; from the moment
\* it is true, exitErr holds what the child's termination was (its exit code
\* or signal) and never changes, whatever Stop() and Status() calls follow.
C30_ExitRecordedOnce ==
    /\ [](IF processExited
          THEN exitErr = WaitError(child.term) /\ child.state = "reaped"
          ELSE exitErr = NilExitErr)
    /\ [][processExited => (processExited' /\ exitErr' = exitErr /\ child' = child)]_vars

C30_Witness ==
    /\ processExited /\ ~exitErr.nil
    /\ supPc = "end"
    /\ lastStop = NoError /\ ~userKilled
    /\ lastStatus.cell.exited

\* C27: a native read error other than end-of-file is kept: the Read that met
\* it and every later Read return zero bytes and that error, never
\* end-of-stream and never data, also once processDone is closed and the
\* events channel with it.
C27_ReadErrorSticky ==
    /\ [](\A s \in Streamers :
           (Returned(s) /\ str[s].lastErr = ErrClosed)
           => str[s].lastN = 0 /\ str[s].done = ErrClosed /\ str[s].fileClosed)
    /\ [][\A s \in Streamers :
           str[s].done = ErrClosed
           => /\ str'[s].done = ErrClosed
              /\ str'[s].rpc = "idle"
              /\ str'[s].lastN = 0
              /\ str'[s].lastErr = ErrClosed
              /\ str'[s].delivered = str[s].delivered]_vars

\* The read error was met before processDone was closed; a Read made after
\* it, with the events channel closed, returned the error again.
C27_Witness ==
    \E s \in Streamers :
      /\ Returned(s) /\ str[s].lastErr = ErrClosed /\ str[s].sticky
      /\ processDone /\ wat[s].eventsClosed
      /\ str[s].offset < Len(file[str[s].stream])

\* C28: a further Close() returns nil and changes nothing: the watcher is
\* not shut down again and the read handle is not closed again, whether the
\* call is made after the first Close() has returned or while it runs.
C28_CloseIdempotent ==
    /\ [](\A s \in Streamers :
           str[s].c2 \in {"returned", "joined"} => str[s].cerr2 = NoError)
    /\ [][\A s \in Streamers :
           str'[s].c2 # str[s].c2
           => /\ wat' = wat
              /\ str' = [str EXCEPT ![s] = [@ EXCEPT !.c2 = str'[s].c2,
                                                     !.cerr2 = str'[s].cerr2]]
              /\ UNCHANGED <<child, file, jobVars>>]_vars

\* A Close() that was called while the first one was running has returned.
C28_Witness ==
    \E s \in Streamers :
      /\ str[s].c2 = "joined" /\ str[s].cerr2 = NoError
      /\ str[s].fileClosed /\ wat[s].eventsClosed

\* C26: every byte appended to the file is eventually delivered to a streamer
\* on that file whose caller keeps calling Read and does not close it: also a
\* byte appended after a Read found the end of the file, and also while the
\* child goes on running.
C26_NoLostWakeup ==
    \A s \in Streamers, k \in 1..MaxFileLen :
      (NotClosed(s) /\ Len(file[str[s].stream]) >= k)
      ~> (Len(str[s].delivered) >= k \/ ~NotClosed(s))

\* C21: getJob hands out a job only for a registered id whose owner is the
\* principal.  A StopJob, GetStatus or GetJobOutput aimed at anything else
\* changes nothing of the job (child, exit state, status) and attaches no
\* reader; a reader exists only for a request of the owner.
C21_OnlyOwnerReachesJob ==
    /\ [](\A u \in Users, id \in JobIds \cup {BadId} :
           getJob(u, id).ok <=> Target(u, id) = "own")
    /\ [](\A s \in Streamers : str[s].attached => (s = H /\ out.user = TheOwner))
    /\ [][\A u \in Users, id \in JobIds \cup {BadId} :
           (/\ Target(u, id) # "own"
            /\ \/ ServeStopJob(u, id)
               \/ ServeGetStatus(u, id)
               \/ \E type \in Streams \cup {"unspecified"} : ServeOutputCall(u, id, type))
           => /\ UNCHANGED <<child, file, jobVars, lastStop, str, wat, out, jobDirectory>>
              /\ lastRpc'.code \in {NotFound, InvalidArgument}
              /\ newState(processExited', userKilled', exitErr')
                   = newState(processExited, userKilled, exitErr)]_vars

\* Another principal asked to stop the job: it runs on, and only the owner
\* has a reader.
C21_Witness ==
    /\ lastRpc.rpc = "StopJob" /\ lastRpc.target = "foreign" /\ lastRpc.code = NotFound
    /\ child.state = "running" /\ ~userKilled
    /\ str[H].attached

\* C25: a StopJob whose Kill() fails is answered with an error (Internal), sets
\* no userKilled and leaves the child as it was; the job is reported Running
\* as long as its exit is not recorded, and a job without userKilled is never
\* reported Stopped.  Kill() fails only for a child that has already
\* terminated and been reaped.
C25_FailedKill ==
    /\ [][\A u \in Users, id \in JobIds \cup {BadId} :
           (/\ ServeStopJob(u, id)
            /\ getJob(u, id).ok /\ ~processExited /\ KillError # NoError)
           => /\ lastRpc'.code = Internal /\ lastStop' = KillError
              /\ userKilled' = userKilled
              /\ child' = child /\ child.state = "reaped"
              /\ newState(processExited', userKilled', exitErr') = JobStatusRunning]_vars
    /\ [](~processExited => newState(processExited, userKilled, exitErr) = JobStatusRunning)
    /\ [](~userKilled => newState(processExited, userKilled, exitErr) # JobStatusStopped)

\* The kill failed, and the job, which a SIGKILL of somebody else had ended,
\* is then reported Complete.
C25_Witness ==
    /\ lastRpc.rpc = "StopJob" /\ lastRpc.code = Internal
    /\ lastStop = ErrProcessDone
    /\ ~userKilled /\ processExited
    /\ child.term.kind = "signal" /\ child.term.sig = SIGKILL
    /\ newState(processExited, userKilled, exitErr) = JobstatusComplete

\* C22: when the client aborts a GetJobOutput call that is streaming (the
\* handler is in its loop and no Send has failed), the handler ends the call
\* with the status Canceled and with its streamer closed, and the abort
\* leaves the child and the job's exit state and status as they were.
C22_AbortEndsCancelled ==
    /\ [](out.hpc = "done" /\ out.abortAt = "loop"
            => out.code = Canceled /\ str[H].cpc = "closed")
    /\ [][ClientCancel \/ ServeOutputCancelled \/ ServeOutputClosing \/ ServeOutputReturn
           => UNCHANGED <<child, jobVars, file>>]_vars

\* The chunks of a sequence of responses, joined in send order.
RECURSIVE Concat(_)
Concat(cs) == IF cs = <<>> THEN <<>> ELSE Head(cs) \o Concat(Tail(cs))

StreamerEOS ==
    /\ str[H].lastErr = EOF
    /\ processDone
    /\ str[H].delivered = file[out.type]

StepOf(s) ==
    \/ \E st \in Streams : Attach(s, st)
    \/ ReaderNext(s)
    \/ CloserNext(s)

\* C24: no step of one streamer (its Reads, its terminal error, its Close(),
\* its watcher) changes the other streamer, its watcher, the files, the child
\* or the job's exit state and status.  Whatever happened to Broken, Other
\* never sees an error, delivers a prefix of its file, can go on until it has
\* returned end-of-stream once the writer is done, and returns end-of-stream
\* only after writer-done with the complete file delivered.
C24_StreamersIsolated ==
    /\ [][StepOf(Broken)
           => /\ UNCHANGED <<str[Other], wat[Other], child, file, jobVars>>
              /\ newState(processExited', userKilled', exitErr')
                   = newState(processExited, userKilled, exitErr)]_vars
    /\ [][StepOf(Other)
           => UNCHANGED <<str[Broken], wat[Broken], child, file, jobVars>>]_vars
    /\ [](str[Other].lastErr \in {"none", NoError, EOF})
    /\ [](str[Other].delivered
            = SubSeq(file[str[Other].stream], 1, Len(str[Other].delivered)))
    /\ [](str[Other].lastErr = EOF
            => processDone /\ str[Other].delivered = file[str[Other].stream])
    /\ [](str[Other].attached /\ processDone /\ str[Other].lastErr # EOF
            => ENABLED ReaderNext(Other))

\* Broken, on the same stream, was closed while it read and ended with a
\* terminal error; Other has delivered the complete file and end-of-stream.
C24_Witness ==
    /\ str[Broken].attached /\ str[Broken].stream = str[Other].stream
    /\ str[Broken].cpc = "closed" /\ str[Broken].lastErr = ErrClosed
    /\ Len(str[Broken].delivered) < Len(file["stdout"])
    /\ str[Other].lastErr = EOF
    /\ Len(file["stdout"]) = MaxFileLen
    /\ str[Other].delivered = file["stdout"]

\* Broken reads the other stream and was closed; Other is complete.
C24_WitnessOtherStream ==
    /\ str[Broken].attached /\ str[Broken].stream = "stderr"
    /\ str[Broken].cpc = "closed" /\ str[Broken].lastErr \in Terminal
    /\ str[Other].lastErr = EOF /\ ~str[Other].late
    /\ Len(file["stdout"]) = MaxFileLen
    /\ str[Other].delivered = file["stdout"]

\* C31: userKilled changes only in a Stop() that holds the job lock, finds
\* processExited false and whose Kill() succeeds, and it changes to true; it
\* is not set once processExited is true and is never cleared; a status of
\* Stopped implies userKilled, so such a Stop() came before the exit was
\* recorded.
C31_UserKilledOnlyByStop ==
    /\ [][userKilled' # userKilled
           => /\ Stop
              /\ jobLock = "free" /\ ~processExited
              /\ KillError = NoError /\ lastStop' = NoError
              /\ userKilled']_vars
    /\ [][userKilled => userKilled']_vars
    /\ [][processExited => userKilled' = userKilled]_vars
    /\ [](newState(processExited, userKilled, exitErr) = JobStatusStopped
            => userKilled /\ processExited)

\* The job is reported Stopped after a Stop() that succeeded.
C31_Witness ==
    /\ newState(processExited, userKilled, exitErr) = JobStatusStopped
    /\ userKilled /\ lastStop = NoError

\* C32: the events channel of a watcher closes after a clean shutdown and
\* after any error of the goroutine (a failed read of the descriptor, an
\* unexpected event), whether or not Close() is ever called; once it is
\* closed, Error() is the cause, and nil after a clean shutdown.
C32_EventsCloseOnError ==
    /\ (wat[W].wpc = "sync") ~> wat[W].eventsClosed
    /\ [](wat[W].eventsClosed => wat[W].err = wat[W].readError)
    /\ [](wat[W].eventsClosed /\ wat[W].err = NoError => wat[W].closeSync)

\* C33: a Close() of a watcher leads to the goroutine reading IN_IGNORED and
\* ending: the events channel closes and the descriptor is released; when
\* the goroutine met no error, it ends only on account of a Close(), and
\* Error() is then nil; Close() returns nil; a later Close() returns nil and
\* changes nothing else.
C33_CloseShutsDown ==
    /\ (wat[W].kpc # "none")
         ~> (wat[W].eventsClosed /\ wat[W].wpc = "exited" /\ ~wat[W].fdOpen)
    /\ [](wat[W].eventsClosed /\ wat[W].readError = NoError => wat[W].err = NoError)
    /\ [](wat[W].wpc \in {"sync", "exited"} /\ wat[W].readError = NoError
            => wat[W].kpc # "none" /\ ~wat[W].watching)
    /\ [](wat[W].kpc # "none" => wat[W].closeErr = NoError)
    /\ [][WatcherCloseAgain(W)
           => wat' = [wat EXCEPT ![W] = [@ EXCEPT !.closeErr2 = NoError]]]_vars

\* A watcher that sent pulses was closed twice: the channel is closed, no
\* error is reported, both calls returned nil.
C33_Witness ==
    /\ wat[W].eventsClosed /\ wat[W].err = NoError
    /\ wat[W].closeErr = NoError /\ wat[W].closeErr2 = NoError
    /\ Len(file["stdout"]) = MaxFileLen

\* C34: the inotify descriptor of a watcher is released at most once, and
\* only by the goroutine's last step: after its loop has ended (it reads
\* the descriptor no more), after Close() has removed the watch and closed
\* closeSync; never while the goroutine reads or while Close() is between
\* its entry and the close of closeSync.
C34_DescriptorReleasedOnce ==
    /\ [](wat[W].released <= 1)
    /\ [](wat[W].released = 1 <=> wat[W].wpc = "exited")
    /\ [](wat[W].wpc \in {"read", "send", "sync"} => wat[W].fdOpen)
    /\ [](wat[W].kpc = "rm" => wat[W].fdOpen)
    /\ [][wat[W].fdOpen /\ ~wat'[W].fdOpen
           => /\ WatchExit(W)
              /\ wat[W].wpc = "sync"
              /\ wat[W].kpc = "returned" /\ wat[W].closeSync /\ ~wat[W].watching]_vars
    /\ [][~wat[W].fdOpen /\ wat[W].wpc # "none" => ~wat'[W].fdOpen]_vars

\* The goroutine ended on a read error, waited for Close() and then released
\* the descriptor.
C34_Witness ==
    /\ wat[W].released = 1 /\ ~wat[W].fdOpen
    /\ wat[W].readError = ErrReadWatch
    /\ wat[W].kpc = "returned"

\* The terminal errors a streamer takes over from its watcher.
WatcherErrors == {Wrap(ErrUnexpectedEvent), Wrap(ErrReadWatch)}

\* C35: when the watcher of a streamer has ended with an error, the
\* streamer's Reads end with the error that wraps the watcher's cause and not
\* with end-of-stream; that error is returned with zero bytes, after every
\* byte of the file has been delivered, and it is sticky.
C35_WatcherErrorIsTerminal ==
    /\ [](\A s \in Streamers :
           (Returned(s) /\ str[s].lastErr \in Terminal)
           => /\ wat[s].eventsClosed
              /\ str[s].lastErr = EndOfStream(wat[s])
              /\ (wat[s].readError # NoError
                    => str[s].lastErr = Wrap(wat[s].readError) /\ str[s].lastErr # EOF)
              /\ str[s].lastN = 0
              /\ str[s].delivered = file[str[s].stream])
    /\ [][\A s \in Streamers :
           str[s].done \in WatcherErrors
           => /\ str'[s].done = str[s].done
              /\ str'[s].rpc = "idle"
              /\ str'[s].lastN = 0
              /\ str'[s].lastErr = str[s].done
              /\ str'[s].delivered = str[s].delivered]_vars

\* The watcher failed while the child was still writing; the streamer has
\* delivered the whole file and then the wrapped error, twice.
C35_Witness ==
    \E s \in Streamers :
      /\ Returned(s) /\ str[s].lastErr \in WatcherErrors /\ str[s].sticky
      /\ str[s].delivered = file[str[s].stream]
      /\ Len(str[s].delivered) = MaxFileLen

\* C36: what a streamer has delivered is at every moment a prefix of what the
\* child has written to its file, and only grows; a Read woken by a pulse
\* that finds no new byte returns (0, nil): it delivers nothing, repeats
\* nothing and sets no terminal state.
C36_DeliveredIsPrefix ==
    /\ [](\A s \in Streamers :
           /\ Len(str[s].delivered) <= Len(file[str[s].stream])
           /\ str[s].delivered = SubSeq(file[str[s].stream], 1, Len(str[s].delivered)))
    /\ [][\A s \in Streamers :
           str[s].attached
           => /\ Len(str'[s].delivered) >= Len(str[s].delivered)
              /\ SubSeq(str'[s].delivered, 1, Len(str[s].delivered)) = str[s].delivered]_vars
    /\ [][\A s \in Streamers :
           (/\ \E n \in 1..MaxBuf : ReadPulse(s, n)
            /\ str[s].offset = Len(file[str[s].stream])
            /\ ~str[s].fileClosed)
           => /\ str'[s].delivered = str[s].delivered
              /\ str'[s].lastN = 0 /\ str'[s].lastErr = NoError
              /\ str'[s].done = NoError /\ str'[s].offset = str[s].offset]_vars

\* A reader that has delivered the whole file waits in Read, and its watcher
\* is about to send a pulse for bytes the reader already has.
C36_Witness ==
    \E s \in Streamers :
      /\ str[s].rpc = "wait" /\ wat[s].wpc = "send"
      /\ str[s].cpc = "none" /\ ~processDone
      /\ str[s].offset = Len(file[str[s].stream])
      /\ Len(str[s].delivered) = MaxFileLen

\* C37: once Close() of a streamer has begun, it returns, and by then the
\* watcher's goroutine has ended, its descriptor is released and the read
\* handle is closed; also when the goroutine was blocked in its send of a
\* pulse, and when a Read of the same streamer was waiting for pulses.
C37_CloseEndsWatcher ==
    /\ \A s \in Streamers :
         (str[s].cpc # "none")
           ~> (/\ str[s].cpc = "closed" /\ str[s].fileClosed
               /\ wat[s].wpc = "exited" /\ ~wat[s].fdOpen /\ wat[s].released = 1)
    /\ [](\A s \in Streamers :
           str[s].cpc = "closed"
           => /\ wat[s].wpc = "exited" /\ wat[s].eventsClosed
              /\ ~wat[s].fdOpen /\ ~wat[s].watching /\ str[s].fileClosed)

\* Close() has returned and the goroutine has ended; a Read was waiting when
\* Close() began and has returned since.
C37_Witness ==
    \E s \in Streamers :
      /\ str[s].cpc = "closed" /\ wat[s].wpc = "exited" /\ ~wat[s].fdOpen
      /\ str[s].cread = "returned"
      /\ ~processDone

\* C38: a job that StartJob started with the identifier id writes its stdout
\* to {directory}/{id}-stdout and its stderr to {directory}/{id}-stderr; the
\* two paths differ from each other and from those of every other identifier.
C38_OutputPaths ==
    /\ lastStart.code = OK =>
         /\ lastStart.args.StdoutPath
              = directory \o "/" \o UuidString(lastStart.id) \o "-stdout"
         /\ lastStart.args.StderrPath
              = directory \o "/" \o UuidString(lastStart.id) \o "-stderr"
         /\ lastStart.args.StdoutPath # lastStart.args.StderrPath
    /\ \A i, j \in JobIds :
         i # j => {JobArgs(i).StdoutPath, JobArgs(i).StderrPath}
                    \cap {JobArgs(j).StdoutPath, JobArgs(j).StderrPath} = {}

\* A GetJobOutput request that getJob or the check of the stream selector
\* turns down.
Rejected(u, id, type) == ~getJob(u, id).ok \/ type \notin Streams

\* C39: when the GetJobOutput handler has returned, the streamer it
\* attached is closed: Close() has returned, the read handle is closed, the
\* watcher's goroutine has ended and its descriptor is released; on every
\* way out of the loop.  A request that is turned down (unknown or
\* malformed id, another owner's job, invalid selector) attaches no
\* streamer, and a streamer exists only for a request that was accepted.
C39_HandlerClosesStreamer ==
    /\ [](out.hpc = "done"
            => /\ str[H].attached /\ str[H].cpc = "closed" /\ str[H].fileClosed
               /\ wat[H].wpc = "exited" /\ ~wat[H].fdOpen /\ wat[H].eventsClosed)
    /\ [](str[H].attached
            => out.hpc # "none" /\ out.user = TheOwner /\ out.type \in Streams)
    /\ [][\A u \in Users, id \in JobIds \cup {BadId}, type \in Streams \cup {"unspecified"} :
           (ServeOutputCall(u, id, type) /\ Rejected(u, id, type))
           => /\ UNCHANGED <<str, wat, out>>
              /\ lastRpc'.code \in {NotFound, InvalidArgument}]_vars

\* The handler has returned Internal after a read error that was not
\* silenced (the watcher's read failed), with its streamer closed; before
\* the call a request of another principal was turned down.
C39_Witness ==
    /\ out.hpc = "done" /\ out.readError /\ ~out.cancelled /\ ~out.sendError
    /\ str[H].lastErr = Wrap(ErrReadWatch)
    /\ str[H].cpc = "closed" /\ wat[H].wpc = "exited"

\* The handler has returned after a failed Send, with its streamer closed.
C39_WitnessSend ==
    /\ out.hpc = "done" /\ out.sendError /\ ~out.cancelled
    /\ str[H].cpc = "closed" /\ wat[H].wpc = "exited"

\* The handler has returned after the end of the stream.
C39_WitnessEos ==
    /\ out.hpc = "done" /\ out.code = OK /\ str[H].lastErr = EOF
    /\ str[H].cpc = "closed" /\ wat[H].wpc = "exited"

\* The handler has returned after the client's abort, which closed the
\* streamer while a Read was waiting.
C39_WitnessCancel ==
    /\ out.hpc = "done" /\ out.code = Canceled /\ str[H].cread = "returned"
    /\ str[H].cpc = "closed" /\ wat[H].wpc = "exited"

\* A request was turned down and no streamer exists.
C39_WitnessRejected ==
    /\ lastRpc.rpc = "GetJobOutput" /\ lastRpc.code = NotFound
    /\ lastRpc.target = "foreign"
    /\ ~str[H].attached /\ out.hpc = "none"

\* A step of StartJob, of any principal, with any command and outcome.
StartJobStep == \E u \in Users, command \in {"", "echo"}, o \in StartOutcomes : StartJob(u, command, o)

\* A step of one of the other three handlers.
OtherRpcStep ==
    \/ \E u \in Users, id \in JobIds \cup {BadId}, e \in {NoError, ErrProcessDone} :
         StopJob(u, id, e)
    \/ \E u \in Users, id \in JobIds \cup {BadId},
          st \in {JobStatusRunning, JobstatusComplete, JobStatusStopped} :
         GetStatus(u, id, st)
    \/ \E u \in Users, id \in JobIds \cup {BadId}, type \in Streams \cup {"unspecified"},
          end \in OutputEnds :
         GetJobOutput(u, id, type, end)

\* C40: the registry changes only in a StartJob that answers OK, which adds
\* one entry under an identifier that had none, owned by the caller; a
\* StartJob that is refused or fails leaves it unchanged (an empty command is
\* refused with InvalidArgument, and nothing is created for it); StopJob,
\* GetStatus and GetJobOutput leave it unchanged; an entry that exists is
\* never changed or removed.
C40_RegistryOnlyGrows ==
    /\ [][jobDirectory' # jobDirectory
           => /\ StartJobStep
              /\ lastStart'.code = OK
              /\ lastStart'.id \in JobIds
              /\ jobDirectory[lastStart'.id] = NoJob
              /\ jobDirectory' = [jobDirectory EXCEPT ![lastStart'.id] =
                                    [Owner |-> lastStart'.user, Job |-> TRUE]]]_vars
    /\ [][\A u \in Users, command \in {"", "echo"}, o \in StartOutcomes :
           StartJob(u, command, o)
           => /\ lastStart'.user = u
              /\ lastStart'.code # OK => UNCHANGED jobDirectory
              /\ command = ""
                   => /\ lastStart'.code = InvalidArgument
                      /\ lastStart'.new.created = {} /\ ~lastStart'.new.child
                      /\ lastStart'.args = NoArgs]_vars
    /\ [][OtherRpcStep => UNCHANGED jobDirectory]_vars
    /\ [][\A id \in JobIds :
           jobDirectory[id] # NoJob => jobDirectory'[id] = jobDirectory[id]]_vars

\* Two principals own a job each, and a StartJob with an empty command has
\* been refused since.
C40_Witness ==
    /\ jobDirectory[1].Owner = "alice" /\ jobDirectory[2].Owner = "bob"
    /\ lastStart.code = InvalidArgument
    /\ lastStart.before = jobDirectory
    /\ lastRpc.rpc = "StopJob" /\ lastRpc.code = OK

====
